------------------------------ MODULE ExamplesProofs ------------------------------
(***************************************************************************)
(* Proofs about the example applications, one section each: orders         *)
(* composed of two parts (Orders), a task board whose requests overlap     *)
(* (TaskBoard, which implements TaskBoardSync), a vault called from a pool *)
(* of threads (VaultThreads, which implements Vault), units of work shared *)
(* by the dispatches of a context (Scopes), the order desk before and      *)
(* after the mediator (OrderDesk), sign-ups (Signup), limiters shared by   *)
(* routes (RateLimit) and validated forms (OrderForm); then what MCExamples*)
(* makes of them together.                                                 *)
(***************************************************************************)
EXTENDS MCExamples, DataLemmas

-----------------------------------------------------------------------------
(* Orders.                                                                 *)
PlaceStates == {"idle", "waiting", "announcing", "placed", "failed", "cancelled"}
OrderTypes ==
  /\ api \in {"async", "sync"} /\ stock \in [Range(Sku) -> Int]
  /\ reserve \in [Purchases -> PartStates] /\ charge \in [Purchases -> PartStates]
  /\ place \in [Purchases -> PlaceStates]
  /\ raised \in [Purchases -> {"none", "OutOfStock", "PaymentDeclined"}]
  /\ orderId \in [Purchases -> Nat] /\ told \in [Purchases -> SUBSET Reactors]

(* How far an order has got says what its parts are, whatever else runs:   *)
(* in particular a number or an announcement needs both parts done.        *)
OrderHolds(o) ==
  /\ place[o] = "idle" => reserve[o] = "no" /\ charge[o] = "no" /\ raised[o] = "none"
  /\ place[o] \in {"idle", "waiting"} => orderId[o] = 0 /\ told[o] = {}
  /\ place[o] \in {"announcing", "placed"} \/ orderId[o] > 0 \/ told[o] # {} =>
       reserve[o] = "done" /\ charge[o] = "done"
  /\ raised[o] = "OutOfStock" => reserve[o] = "failed"
  /\ raised[o] = "PaymentDeclined" => charge[o] = "failed"
  /\ place[o] = "failed" => raised[o] # "none"
  /\ place[o] = "placed" => told[o] = Reactors
  /\ api = "sync" =>
       /\ charge[o] # "no" => reserve[o] = "done"
       /\ "waiting" \in {reserve[o], charge[o]} => place[o] = "waiting"

StockAdds ==
  \A s \in Range(Sku) :
    stock[s] >= 0 /\ stock[s] + SumOver(Quantity, Reserved(s)) = InitialStock[s]

(* The numbers given out are the first so many, one for each order that    *)
(* has one.                                                                *)
Numbered == {o \in Purchases : orderId[o] > 0}
IdsFollow == {orderId[o] : o \in Numbered} = 1 .. Cardinality(Numbered)

OneAtATime ==
  api = "sync" =>
    \A o, p \in Purchases :
      {place[o], place[p]} \subseteq {"waiting", "announcing"} => o = p

OrdersInv == OrderTypes /\ (\A o \in Purchases : OrderHolds(o)) /\ StockAdds /\ IdsFollow /\ OneAtATime

-----------------------------------------------------------------------------
LEMMA InitOrders == OrdersInit => OrdersInv
<1>. SUFFICES ASSUME OrdersInit PROVE OrdersInv
  OBVIOUS
<1>1. OrderTypes
  BY OrdersAssumption DEF OrdersInit, OrderTypes, PartStates, PlaceStates
<1>2. \A o \in Purchases : OrderHolds(o)
  BY DEF OrdersInit, OrderHolds
<1>3. StockAdds
  <2>. SUFFICES ASSUME NEW s \in Range(Sku)
                PROVE  stock[s] >= 0 /\ stock[s] + SumOver(Quantity, Reserved(s)) = InitialStock[s]
    BY DEF StockAdds
  <2>1. Reserved(s) = {}
    BY DEF OrdersInit, Reserved
  <2>2. SumOver(Quantity, Reserved(s)) = 0
    BY <2>1, SumEmpty
  <2>3. stock[s] \in Nat /\ stock[s] = InitialStock[s]
    BY OrdersAssumption DEF OrdersInit
  <2>. QED  BY <2>2, <2>3
<1>4. IdsFollow
  <2>1. Numbered = {}
    BY DEF OrdersInit, Numbered
  <2>2. Cardinality(Numbered) = 0
    BY <2>1, FS_EmptySet
  <2>. QED  BY <2>1, <2>2 DEF IdsFollow
<1>5. OneAtATime
  BY DEF OrdersInit, OneAtATime
<1>. QED  BY <1>1, <1>2, <1>3, <1>4, <1>5 DEF OrdersInv

(* Only an order that becomes reserved changes what is reserved.           *)
LEMMA StockKept ==
  ASSUME StockAdds, UNCHANGED stock,
         \A o \in Purchases : reserve'[o] = "done" <=> reserve[o] = "done"
  PROVE  StockAdds'
<1>1. ASSUME NEW s PROVE Reserved(s)' = Reserved(s)
  BY DEF Reserved
<1>. QED  BY <1>1 DEF StockAdds

LEMMA StockTaken ==
  ASSUME OrderTypes, StockAdds, NEW o \in Purchases, reserve[o] # "done", stock[Sku[o]] >= Quantity[o],
         stock' = [stock EXCEPT ![Sku[o]] = @ - Quantity[o]],
         reserve' = [reserve EXCEPT ![o] = "done"]
  PROVE  StockAdds' /\ stock' \in [Range(Sku) -> Int]
<1>0. Sku[o] \in Range(Sku) /\ Quantity[o] \in Nat /\ \A p \in Purchases : Quantity[p] \in Int
  BY OrdersAssumption DEF Range
<1>1. stock' \in [Range(Sku) -> Int]
  BY <1>0 DEF OrderTypes
<1>2. ASSUME NEW s \in Range(Sku)
      PROVE  stock'[s] >= 0 /\ stock'[s] + SumOver(Quantity, Reserved(s)') = InitialStock[s]
  <2>1. /\ stock[s] \in Int /\ stock[s] >= 0 /\ InitialStock[s] \in Int
        /\ stock[s] + SumOver(Quantity, Reserved(s)) = InitialStock[s]
    <3>1. InitialStock[s] \in Nat /\ stock[s] \in Int
      BY OrdersAssumption DEF OrderTypes
    <3>2. stock[s] >= 0 /\ stock[s] + SumOver(Quantity, Reserved(s)) = InitialStock[s]
      BY DEF StockAdds
    <3>. QED  BY <3>1, <3>2
  <2>2. CASE s # Sku[o]
    <3>1. Reserved(s)' = Reserved(s)
      BY <2>2 DEF Reserved, OrderTypes
    <3>2. stock'[s] = stock[s]
      BY <2>2 DEF OrderTypes
    <3>. QED  BY <2>1, <3>1, <3>2
  <2>3. CASE s = Sku[o]
    <3>1. Reserved(s)' = Reserved(s) \cup {o} /\ o \notin Reserved(s)
      BY <2>3 DEF Reserved, OrderTypes
    <3>2. stock'[s] = stock[s] - Quantity[o]
      BY <2>3 DEF OrderTypes
    <3>3. IsFiniteSet(Reserved(s)) /\ Reserved(s) \subseteq Purchases
      BY OrdersAssumption, FS_Subset DEF Reserved
    <3>4. SumOver(Quantity, Reserved(s)) \in Int
      BY <1>0, <3>3, SumSame
    <3>5. SumOver(Quantity, Reserved(s) \cup {o}) = SumOver(Quantity, Reserved(s)) + Quantity[o]
      <4>1. \A x \in Reserved(s) \cup {o} : Quantity[x] \in Int
        BY <1>0, <3>3
      <4>. QED  BY <3>1, <3>3, <4>1, SumAdd
    <3>6. SumOver(Quantity, Reserved(s)') = SumOver(Quantity, Reserved(s)) + Quantity[o]
      BY <3>1, <3>5, Zenon
    <3>. QED  BY <1>0, <2>1, <2>3, <3>2, <3>4, <3>6
  <2>. QED  BY <2>2, <2>3
<1>3. StockAdds'
  BY <1>2 DEF StockAdds
<1>. QED  BY <1>1, <1>3

(* itertools.count(1) goes on from the numbers given out.                  *)
LEMMA NextIdIs ==
  ASSUME OrderTypes, IdsFollow, NEW o \in Purchases
  PROVE  NextId = Cardinality(Numbered) + 1 /\ Cardinality(Numbered) \in Nat
<1> DEFINE n == Cardinality(Numbered)
           ids == {orderId[p] : p \in Purchases}
<1>1. n \in Nat
  BY OrdersAssumption, FS_Subset, FS_CardinalityType DEF Numbered
<1>2. n \in ids \/ n = 0
  <2>1. n # 0 => n \in 1 .. n
    BY <1>1
  <2>2. n \in 1 .. n => \E p \in Numbered : orderId[p] = n
    BY DEF IdsFollow
  <2>. QED  BY <2>1, <2>2 DEF Numbered
<1>3. \A i \in ids : i \in 0 .. n
  <2>. SUFFICES ASSUME NEW p \in Purchases PROVE orderId[p] \in 0 .. n
    OBVIOUS
  <2>1. orderId[p] \in Nat
    BY DEF OrderTypes
  <2>2. orderId[p] > 0 => orderId[p] \in 1 .. n
    BY DEF IdsFollow, Numbered
  <2>. QED  BY <1>1, <2>1, <2>2
<1>4. n \in ids
  <2>1. CASE n = 0
    <3>1. orderId[o] \in ids
      OBVIOUS
    <3>. QED  BY <1>3, <2>1, <3>1
  <2>. QED  BY <1>2, <2>1
<1> HIDE DEF n, ids
<1>5. Max(ids) = n
  <2>1. n \in ids /\ \A y \in ids : n >= y
    BY <1>1, <1>3, <1>4
  <2>2. Max(ids) \in ids /\ \A y \in ids : Max(ids) >= y
    BY <2>1 DEF Max
  <2>3. Max(ids) \in 0 .. n /\ Max(ids) >= n
    BY <1>3, <2>1, <2>2, Zenon
  <2> DEFINE m == Max(ids)
  <2>4. m \in 0 .. n /\ m >= n
    BY <2>3
  <2> HIDE DEF m
  <2>5. m = n
    BY <1>1, <2>4
  <2>. QED  BY <2>5 DEF m
<1>. QED  BY <1>1, <1>5 DEF NextId, n, ids

LEMMA IdGiven ==
  ASSUME OrderTypes, IdsFollow, NEW o \in Purchases, orderId[o] = 0,
         orderId' = [orderId EXCEPT ![o] = NextId]
  PROVE  IdsFollow' /\ orderId' \in [Purchases -> Nat] /\ orderId'[o] > 0
<1> DEFINE n == Cardinality(Numbered)
<1>1. NextId = n + 1 /\ n \in Nat
  BY NextIdIs
<1> HIDE DEF n
<1>2. orderId' \in [Purchases -> Nat] /\ orderId'[o] = n + 1 /\ \A p \in Purchases \ {o} : orderId'[p] = orderId[p]
  BY <1>1 DEF OrderTypes
<1>3. Numbered' = Numbered \cup {o} /\ o \notin Numbered
  BY <1>1, <1>2 DEF Numbered
<1>4. Cardinality(Numbered') = n + 1
  <2>1. IsFiniteSet(Numbered)
    BY OrdersAssumption, FS_Subset DEF Numbered
  <2>. QED  BY <1>3, <2>1, FS_AddElement DEF n
<1>5. {orderId'[p] : p \in Numbered'} = {orderId[p] : p \in Numbered} \cup {n + 1}
  <2>1. \A p \in Numbered : orderId'[p] = orderId[p]
    BY <1>2, <1>3 DEF Numbered
  <2>. QED  BY <1>2, <1>3, <2>1
<1>6. {orderId'[p] : p \in Numbered'} = 1 .. n + 1
  <2>1. 1 .. n + 1 = 1 .. n \cup {n + 1}
    BY <1>1
  <2>. QED  BY <1>5, <2>1 DEF IdsFollow, n
<1>7. IdsFollow'
  BY <1>4, <1>6 DEF IdsFollow
<1>. QED  BY <1>1, <1>2, <1>7

-----------------------------------------------------------------------------
(* A step of one order leaves the others where they are.                   *)
LEMMA OthersHold ==
  ASSUME OrderTypes, \A p \in Purchases : OrderHolds(p), NEW o \in Purchases, api' = api,
         \A p \in Purchases \ {o} :
           /\ reserve'[p] = reserve[p] /\ charge'[p] = charge[p] /\ place'[p] = place[p]
           /\ raised'[p] = raised[p] /\ orderId'[p] = orderId[p] /\ told'[p] = told[p]
  PROVE  \A p \in Purchases \ {o} : OrderHolds(p)'
  BY DEF OrderHolds

LEMMA IdsKept == ASSUME IdsFollow, UNCHANGED orderId PROVE IdsFollow'
  BY DEF IdsFollow, Numbered

LEMMA PlaceOrderStep ==
  ASSUME OrdersInv, NEW o \in Purchases, PlaceOrder(o) \/ SyncPlaceOrder(o)
  PROVE  OrdersInv'
<1>1. /\ place[o] = "idle" /\ UNCHANGED <<api, stock, raised, orderId, told>>
      /\ place' = [place EXCEPT ![o] = "waiting"] /\ reserve' = [reserve EXCEPT ![o] = "waiting"]
      /\ api = "async" => charge' = [charge EXCEPT ![o] = "waiting"]
      /\ api = "sync" => charge' = charge /\ \A p \in Purchases : place[p] \notin {"waiting", "announcing"}
  BY DEF PlaceOrder, SyncPlaceOrder
<1>2. api \in {"async", "sync"} /\ OrderTypes /\ OrderHolds(o)
  BY DEF OrdersInv, OrderTypes
<1>3. OrderTypes'
  BY <1>1, <1>2 DEF OrderTypes, PartStates, PlaceStates
<1>4. /\ place'[o] = "waiting" /\ reserve'[o] = "waiting"
      /\ charge'[o] = IF api = "async" THEN "waiting" ELSE "no"
      /\ \A p \in Purchases \ {o} : /\ place'[p] = place[p] /\ reserve'[p] = reserve[p]
                                    /\ charge'[p] = charge[p]
  BY <1>1, <1>2 DEF OrderTypes, OrderHolds
<1>5. OrderHolds(o)'
  BY <1>1, <1>2, <1>4 DEF OrderHolds
<1>6. \A p \in Purchases \ {o} : OrderHolds(p)'
  BY <1>1, <1>2, <1>4, OthersHold DEF OrdersInv
<1>7. StockAdds'
  <2>1. \A p \in Purchases : reserve'[p] = "done" <=> reserve[p] = "done"
    BY <1>2, <1>1, <1>4 DEF OrderHolds
  <2>. QED  BY <1>1, <2>1, StockKept DEF OrdersInv
<1>8. IdsFollow'
  BY <1>1, IdsKept DEF OrdersInv
<1>9. OneAtATime'
  BY <1>1, <1>4 DEF OneAtATime
<1>. QED  BY <1>3, <1>5, <1>6, <1>7, <1>8, <1>9 DEF OrdersInv

(* A part of an order ends: the reservation or the charge, in either twin. *)
LEMMA ReserveStep ==
  ASSUME OrdersInv, NEW o \in Purchases, ReserveStock(o) \/ SyncReserveStock(o)
  PROVE  OrdersInv'
<1>1. /\ reserve[o] = "waiting" /\ UNCHANGED <<api, orderId, told>>
      /\ api \in {"async", "sync"} /\ OrderTypes /\ OrderHolds(o)
  BY DEF ReserveStock, SyncReserveStock, OrdersInv, OrderTypes
<1>2. IdsFollow'
  BY <1>1, IdsKept DEF OrdersInv
<1>3. CASE stock[Sku[o]] >= Quantity[o]
  <2>1. /\ stock' = [stock EXCEPT ![Sku[o]] = @ - Quantity[o]]
        /\ reserve' = [reserve EXCEPT ![o] = "done"] /\ UNCHANGED <<raised, place>>
        /\ charge' = IF api = "async" THEN charge ELSE [charge EXCEPT ![o] = "waiting"]
    BY <1>1, <1>3 DEF ReserveStock, SyncReserveStock, Covers
  <2>2. StockAdds' /\ stock' \in [Range(Sku) -> Int]
    BY <1>1, <1>3, <2>1, StockTaken DEF OrdersInv
  <2>3. OrderTypes'
    BY <1>1, <2>1, <2>2 DEF OrderTypes, PartStates
  <2>4. /\ reserve'[o] = "done" /\ charge'[o] = IF api = "async" THEN charge[o] ELSE "waiting"
        /\ \A p \in Purchases \ {o} : reserve'[p] = reserve[p] /\ charge'[p] = charge[p]
    BY <1>1, <2>1 DEF OrderTypes
  <2>5. OrderHolds(o)'
    BY <1>1, <2>1, <2>4 DEF OrderHolds
  <2>6. \A p \in Purchases \ {o} : OrderHolds(p)'
    BY <1>1, <2>1, <2>4, OthersHold DEF OrdersInv
  <2>7. OneAtATime'
    BY <1>1, <2>1 DEF OrdersInv, OneAtATime
  <2>. QED  BY <1>2, <2>2, <2>3, <2>5, <2>6, <2>7 DEF OrdersInv
<1>4. CASE ~(stock[Sku[o]] >= Quantity[o])
  <2>1. /\ reserve' = [reserve EXCEPT ![o] = "failed"] /\ UNCHANGED <<stock, charge>>
        /\ raised' = [raised EXCEPT ![o] = IF api = "async" THEN FirstFailure(o, "OutOfStock") ELSE "OutOfStock"]
        /\ place' = IF api = "async" THEN place ELSE [place EXCEPT ![o] = "failed"]
    BY <1>1, <1>4 DEF ReserveStock, SyncReserveStock, Covers
  <2>2. FirstFailure(o, "OutOfStock") \in {raised[o], "OutOfStock"} /\ FirstFailure(o, "OutOfStock") # "none"
    BY DEF FirstFailure
  <2>3. /\ reserve'[o] = "failed" /\ raised'[o] \in {raised[o], "OutOfStock"} /\ raised'[o] # "none"
        /\ place'[o] = IF api = "async" THEN place[o] ELSE "failed"
        /\ \A p \in Purchases \ {o} : /\ reserve'[p] = reserve[p] /\ raised'[p] = raised[p]
                                      /\ place'[p] = place[p]
    BY <1>1, <2>1, <2>2 DEF OrderTypes
  <2>4. OrderTypes'
    BY <1>1, <2>1, <2>2 DEF OrderTypes, PartStates, PlaceStates
  <2>5. OrderHolds(o)'
    BY <1>1, <2>1, <2>3 DEF OrderHolds
  <2>6. \A p \in Purchases \ {o} : OrderHolds(p)'
    BY <1>1, <2>1, <2>3, OthersHold DEF OrdersInv
  <2>7. StockAdds'
    <3>1. \A p \in Purchases : reserve'[p] = "done" <=> reserve[p] = "done"
      BY <1>1, <2>3
    <3>. QED  BY <2>1, <3>1, StockKept DEF OrdersInv
  <2>8. OneAtATime'
    BY <1>1, <2>3 DEF OrdersInv, OneAtATime
  <2>. QED  BY <1>2, <2>4, <2>5, <2>6, <2>7, <2>8 DEF OrdersInv
<1>. QED  BY <1>3, <1>4

LEMMA ChargeStep ==
  ASSUME OrdersInv, NEW o \in Purchases, ChargePayment(o) \/ SyncChargePayment(o)
  PROVE  OrdersInv'
<1>1. /\ charge[o] = "waiting" /\ UNCHANGED <<api, stock, reserve, told>>
      /\ api \in {"async", "sync"} /\ OrderTypes /\ OrderHolds(o)
  BY DEF ChargePayment, SyncChargePayment, OrdersInv, OrderTypes
<1>2. StockAdds'
  BY <1>1, StockKept DEF OrdersInv
<1>3. CASE o \notin Declined /\ api = "async"
  <2>1. charge' = [charge EXCEPT ![o] = "done"] /\ UNCHANGED <<raised, orderId, place>>
    BY <1>1, <1>3 DEF ChargePayment, SyncChargePayment
  <2>2. OrderTypes' /\ charge'[o] = "done" /\ \A p \in Purchases \ {o} : charge'[p] = charge[p]
    BY <1>1, <2>1 DEF OrderTypes, PartStates
  <2>3. OrderHolds(o)'
    BY <1>1, <1>3, <2>1, <2>2 DEF OrderHolds
  <2>4. \A p \in Purchases \ {o} : OrderHolds(p)'
    BY <1>1, <2>1, <2>2, OthersHold DEF OrdersInv
  <2>5. IdsFollow' /\ OneAtATime'
    BY <1>1, <2>1, IdsKept DEF OrdersInv, OneAtATime
  <2>. QED  BY <1>2, <2>2, <2>3, <2>4, <2>5 DEF OrdersInv
<1>4. CASE o \notin Declined /\ api = "sync"
  <2>1. /\ charge' = [charge EXCEPT ![o] = "done"] /\ UNCHANGED raised
        /\ orderId' = [orderId EXCEPT ![o] = NextId] /\ place' = [place EXCEPT ![o] = "announcing"]
    BY <1>1, <1>4 DEF ChargePayment, SyncChargePayment
  <2>2. orderId[o] = 0 /\ place[o] = "waiting" /\ reserve[o] = "done"
    BY <1>1, <1>4 DEF OrderHolds
  <2>3. IdsFollow' /\ orderId' \in [Purchases -> Nat] /\ orderId'[o] > 0
    BY <1>1, <2>1, <2>2, IdGiven DEF OrdersInv
  <2>4. OrderTypes'
    BY <1>1, <2>1, <2>3 DEF OrderTypes, PartStates, PlaceStates
  <2>5. /\ charge'[o] = "done" /\ place'[o] = "announcing"
        /\ \A p \in Purchases \ {o} : /\ charge'[p] = charge[p] /\ orderId'[p] = orderId[p]
                                      /\ place'[p] = place[p]
    BY <1>1, <2>1 DEF OrderTypes
  <2>6. OrderHolds(o)'
    BY <1>1, <2>1, <2>2, <2>5 DEF OrderHolds
  <2>7. \A p \in Purchases \ {o} : OrderHolds(p)'
    BY <1>1, <2>1, <2>5, OthersHold DEF OrdersInv
  <2>8. OneAtATime'
    BY <1>1, <2>2, <2>5 DEF OrdersInv, OneAtATime
  <2>. QED  BY <1>2, <2>3, <2>4, <2>6, <2>7, <2>8 DEF OrdersInv
<1>5. CASE o \in Declined
  <2>1. /\ charge' = [charge EXCEPT ![o] = "failed"] /\ UNCHANGED orderId
        /\ raised' = [raised EXCEPT ![o] = IF api = "async" THEN FirstFailure(o, "PaymentDeclined") ELSE "PaymentDeclined"]
        /\ place' = IF api = "async" THEN place ELSE [place EXCEPT ![o] = "failed"]
    BY <1>1, <1>5 DEF ChargePayment, SyncChargePayment
  <2>2. FirstFailure(o, "PaymentDeclined") \in {raised[o], "PaymentDeclined"}
        /\ FirstFailure(o, "PaymentDeclined") # "none"
    BY DEF FirstFailure
  <2>3. /\ charge'[o] = "failed" /\ raised'[o] \in {raised[o], "PaymentDeclined"} /\ raised'[o] # "none"
        /\ place'[o] = IF api = "async" THEN place[o] ELSE "failed"
        /\ \A p \in Purchases \ {o} : /\ charge'[p] = charge[p] /\ raised'[p] = raised[p]
                                      /\ place'[p] = place[p]
    BY <1>1, <2>1, <2>2 DEF OrderTypes
  <2>4. OrderTypes'
    BY <1>1, <2>1, <2>2 DEF OrderTypes, PartStates, PlaceStates
  <2>5. OrderHolds(o)'
    BY <1>1, <2>1, <2>3 DEF OrderHolds
  <2>6. \A p \in Purchases \ {o} : OrderHolds(p)'
    BY <1>1, <2>1, <2>3, OthersHold DEF OrdersInv
  <2>7. IdsFollow' /\ OneAtATime'
    BY <1>1, <2>1, <2>3, IdsKept DEF OrdersInv, OneAtATime
  <2>. QED  BY <1>2, <2>4, <2>5, <2>6, <2>7 DEF OrdersInv
<1>. QED  BY <1>1, <1>3, <1>4, <1>5

(* PlaceOrder goes on: it fails, gets its number, or tells its subscribers.*)
LEMMA GoOnStep ==
  ASSUME OrdersInv, NEW o \in Purchases,
         Resume(o) \/ Placed(o) \/ SyncPublish(o) \/ \E h \in Reactors : React(o, h)
  PROVE  OrdersInv'
<1>1. UNCHANGED <<api, stock, reserve, charge, raised>> /\ OrderTypes /\ OrderHolds(o)
  BY DEF Resume, Placed, SyncPublish, React, OrdersInv
<1>2. StockAdds'
  BY <1>1, StockKept DEF OrdersInv
<1>3. ASSUME NEW to \in {"failed", "announcing", "placed"}, place' = [place EXCEPT ![o] = to],
             UNCHANGED orderId, told' \in [Purchases -> SUBSET Reactors], OrderHolds(o)',
             \A p \in Purchases \ {o} : told'[p] = told[p], place[o] \in {"waiting", "announcing"}
      PROVE  OrdersInv'
  <2>1. OrderTypes' /\ place'[o] = to /\ \A p \in Purchases \ {o} : place'[p] = place[p]
    BY <1>1, <1>3 DEF OrderTypes, PlaceStates
  <2>2. \A p \in Purchases \ {o} : OrderHolds(p)'
    BY <1>1, <1>3, <2>1, OthersHold DEF OrdersInv
  <2>3. IdsFollow' /\ OneAtATime'
    BY <1>1, <1>3, <2>1, IdsKept DEF OrdersInv, OneAtATime
  <2>. QED  BY <1>2, <1>3, <2>1, <2>2, <2>3 DEF OrdersInv
<1>4. ASSUME place[o] = "waiting", GatherFails(o), place' = [place EXCEPT ![o] = "failed"],
             UNCHANGED <<orderId, told>>
      PROVE  OrdersInv'
  <2>1. place'[o] = "failed"
    BY <1>1, <1>4 DEF OrderTypes
  <2>2. OrderHolds(o)' /\ told' \in [Purchases -> SUBSET Reactors]
    BY <1>1, <1>4, <2>1 DEF OrderHolds, GatherFails, OrderTypes
  <2>. QED  BY <1>3, <1>4, <2>2
<1>5. ASSUME place[o] = "waiting", GatherReturns(o), orderId' = [orderId EXCEPT ![o] = NextId],
             place' = [place EXCEPT ![o] = "announcing"], UNCHANGED told
      PROVE  OrdersInv'
  <2>1. orderId[o] = 0
    BY <1>1, <1>5 DEF OrderHolds
  <2>2. IdsFollow' /\ orderId' \in [Purchases -> Nat]
    BY <1>1, <1>5, <2>1, IdGiven DEF OrdersInv
  <2>3. /\ place'[o] = "announcing"
        /\ \A p \in Purchases \ {o} : place'[p] = place[p] /\ orderId'[p] = orderId[p]
    BY <1>1, <1>5 DEF OrderTypes
  <2>4. OrderTypes'
    BY <1>1, <1>5, <2>2 DEF OrderTypes, PlaceStates
  <2>5. OrderHolds(o)'
    BY <1>1, <1>5, <2>3 DEF OrderHolds, GatherReturns
  <2>6. \A p \in Purchases \ {o} : OrderHolds(p)'
    BY <1>1, <1>5, <2>3, OthersHold DEF OrdersInv
  <2>7. OneAtATime'
    BY <1>1, <1>5, <2>3 DEF OrdersInv, OneAtATime
  <2>. QED  BY <1>2, <2>2, <2>4, <2>5, <2>6, <2>7 DEF OrdersInv
<1>6. CASE Resume(o)
  BY <1>4, <1>5, <1>6 DEF Resume
<1>7. CASE Placed(o) \/ SyncPublish(o)
  <2>1. /\ place[o] = "announcing" /\ place' = [place EXCEPT ![o] = "placed"] /\ UNCHANGED orderId
        /\ (told' = told /\ told[o] = Reactors) \/ told' = [told EXCEPT ![o] = Reactors]
    BY <1>7 DEF Placed, SyncPublish
  <2>2. /\ told' \in [Purchases -> SUBSET Reactors] /\ told'[o] = Reactors /\ place'[o] = "placed"
        /\ \A p \in Purchases \ {o} : told'[p] = told[p]
    BY <1>1, <2>1 DEF OrderTypes
  <2>3. OrderHolds(o)'
    BY <1>1, <2>1, <2>2 DEF OrderHolds
  <2>. QED  BY <1>3, <2>1, <2>2, <2>3
<1>8. ASSUME NEW h \in Reactors, React(o, h) PROVE OrdersInv'
  <2>1. place[o] = "announcing" /\ UNCHANGED <<place, orderId>> /\ told' = [told EXCEPT ![o] = @ \cup {h}]
    BY <1>8 DEF React
  <2>2. /\ told' \in [Purchases -> SUBSET Reactors] /\ place' = [place EXCEPT ![o] = "announcing"]
        /\ \A p \in Purchases \ {o} : told'[p] = told[p]
    BY <1>1, <2>1 DEF OrderTypes
  <2>3. OrderHolds(o)'
    BY <1>1, <2>1 DEF OrderHolds
  <2>. QED  BY <1>3, <2>1, <2>2, <2>3
<1>. QED  BY <1>6, <1>7, <1>8

LEMMA RunEndsStep == ASSUME OrdersInv, RunEnds PROVE OrdersInv'
<1>1. /\ api = "async" /\ UNCHANGED <<api, stock, raised, orderId, told>> /\ OrderTypes
      /\ reserve' = Cancelled(reserve) /\ charge' = Cancelled(charge) /\ place' = Cancelled(place)
      /\ \A o \in Purchases : place[o] # "idle"
  BY DEF RunEnds, OrdersInv
<1>2. \A o \in Purchases :
        /\ reserve'[o] = IF reserve[o] \in {"waiting", "announcing"} THEN "cancelled" ELSE reserve[o]
        /\ charge'[o] = IF charge[o] \in {"waiting", "announcing"} THEN "cancelled" ELSE charge[o]
        /\ place'[o] = IF place[o] \in {"waiting", "announcing"} THEN "cancelled" ELSE place[o]
  BY <1>1 DEF Cancelled
<1>3. OrderTypes'
  <2>1. reserve' \in [Purchases -> PartStates]
    BY <1>1 DEF OrderTypes, Cancelled, PartStates
  <2>2. charge' \in [Purchases -> PartStates]
    BY <1>1 DEF OrderTypes, Cancelled, PartStates
  <2>3. place' \in [Purchases -> PlaceStates]
    BY <1>1 DEF OrderTypes, Cancelled, PlaceStates
  <2>. QED  BY <1>1, <2>1, <2>2, <2>3 DEF OrderTypes
<1>4. ASSUME NEW o \in Purchases PROVE OrderHolds(o)'
  <2>1. OrderHolds(o)
    BY DEF OrdersInv
  <2>. QED  BY <1>1, <1>2, <2>1 DEF OrderHolds
<1>5. StockAdds'
  <2>1. \A p \in Purchases : reserve'[p] = "done" <=> reserve[p] = "done"
    BY <1>2
  <2>. QED  BY <1>1, <2>1, StockKept DEF OrdersInv
<1>6. IdsFollow' /\ OneAtATime'
  BY <1>1, IdsKept DEF OrdersInv, OneAtATime
<1>. QED  BY <1>3, <1>4, <1>5, <1>6 DEF OrdersInv

LEMMA NextOrders == OrdersInv /\ [OrdersNext]_orderVars => OrdersInv'
<1>. SUFFICES ASSUME OrdersInv, [OrdersNext]_orderVars PROVE OrdersInv'
  OBVIOUS
<1>1. CASE UNCHANGED orderVars
  <2>1. UNCHANGED <<api, stock, reserve, charge, place, raised, orderId, told>>
    BY <1>1 DEF orderVars
  <2>2. OrderTypes' /\ OneAtATime' /\ \A o \in Purchases : OrderHolds(o)'
    BY <2>1 DEF OrdersInv, OrderTypes, OneAtATime, OrderHolds
  <2>3. StockAdds' /\ IdsFollow'
    BY <2>1, StockKept, IdsKept DEF OrdersInv
  <2>. QED  BY <2>2, <2>3 DEF OrdersInv
<1>2. CASE RunEnds
  BY <1>2, RunEndsStep
<1>3. ASSUME NEW o \in Purchases, PlaceOrder(o) \/ SyncPlaceOrder(o) \/ LoopStep(o) \/ ThreadStep(o)
      PROVE  OrdersInv'
  BY <1>3, PlaceOrderStep, ReserveStep, ChargeStep, GoOnStep DEF LoopStep, ThreadStep
<1>. QED  BY <1>1, <1>2, <1>3 DEF OrdersNext

LEMMA AlwaysOrdersInv == OrdersSpec => []OrdersInv
  BY InitOrders, NextOrders, PTL DEF OrdersSpec

(* PlaceOrder and its parts, in both twins, however orders overlap, fail   *)
(* or are cancelled: no item is promised more often than there was, every  *)
(* outcome is that of its parts, numbers go to whole orders without gaps,  *)
(* and the synchronous twin charges only for what it reserved.             *)
THEOREM OrdersAlwaysAddUp == OrdersSpec => []OrdersAddUp
<1>1. OrdersInv => OrdersAddUp
  <2>. SUFFICES ASSUME OrdersInv PROVE OrdersAddUp
    OBVIOUS
  <2>1. StockNeverOversold
    <3>1. DOMAIN stock = Range(Sku)
      BY DEF OrdersInv, OrderTypes
    <3>. QED  BY <3>1 DEF OrdersInv, StockAdds, StockNeverOversold, SumOver
  <2>2. OutcomeMatchesParts
    BY DEF OrdersInv, OrderTypes, OrderHolds, OutcomeMatchesParts
  <2>3. NoIdWasted
    <3>1. \A o \in Purchases : orderId[o] \in Nat /\ (orderId[o] > 0 => reserve[o] = "done" /\ charge[o] = "done")
      BY DEF OrdersInv, OrderTypes, OrderHolds
    <3>2. {o \in Purchases : reserve[o] = "done" /\ charge[o] = "done" /\ orderId[o] > 0} = Numbered
      BY <3>1 DEF Numbered
    <3>3. {orderId[o] : o \in Purchases} \ {0} = {orderId[o] : o \in Numbered}
      BY <3>1 DEF Numbered
    <3>4. {orderId[o] : o \in Purchases} \ {0} = 1 .. Cardinality(Numbered)
      BY <3>3 DEF OrdersInv, IdsFollow
    <3>. QED  BY <3>1, <3>2, <3>4, Zenon DEF NoIdWasted
  <2>4. SyncChargesOnlyReserved
    BY DEF OrdersInv, OrderHolds, SyncChargesOnlyReserved
  <2>. QED  BY <2>1, <2>2, <2>3, <2>4 DEF OrdersAddUp
<1>. QED  BY <1>1, AlwaysOrdersInv, PTL

-----------------------------------------------------------------------------
(* TaskBoard.                                                              *)
(* What a request has behind it at each stage: none is answered before it  *)
(* is over, a command that waits was authorized, and what the cache holds  *)
(* under a key are tasks that exist, under that of a GetTask the one asked.*)
Waits ==
  /\ DOMAIN stage = BoardSends /\ DOMAIN answer = BoardSends
  /\ \A r \in BoardSends :
       /\ stage[r] \in {"idle", "awaiting"} => answer[r] = NoAnswer
       /\ stage[r] = "awaiting" /\ Command(r) => r \in MayWrite
CacheHolds ==
  /\ DOMAIN cache = Keys
  /\ \A k \in Keys : cache[k] # NoEntry =>
       /\ cache[k].ids \subseteq 1 .. made
       /\ k[1] = "get" => cache[k].ids = {k[2]}
BoardInv == made \in Nat /\ Waits /\ CacheHolds

(* What the mapping makes of the two variables it does not copy.           *)
Stored == [k \in DOMAIN cache |-> IF cache[k] = NoEntry THEN {} ELSE {cache[k].ids}]
Answered == [r \in BoardSends |-> IF answer[r].kind = "cancelled" THEN NoAnswer ELSE answer[r]]

LEMMA BoardInitHolds == BoardInit => BoardInv
  BY DEF BoardInit, BoardInv, Waits, CacheHolds

(* An End, or a hit or refusal: the request is over with its answer.       *)
LEMMA Concludes ==
  ASSUME Waits, NEW r \in BoardSends, NEW given,
         stage' = [stage EXCEPT ![r] = "ended"], answer' = [answer EXCEPT ![r] = given]
  PROVE  Waits'
  BY DEF Waits, Command

LEMMA KeyOf ==
  ASSUME NEW r \in BoardSends, Cacheable(r)
  PROVE  /\ Key(r) \in Keys /\ Key(r)[1] = Kind[r]
         /\ Kind[r] = "get" => Key(r)[2] = Target[r]
         /\ Kind[r] \notin {"add", "complete"}
  BY DEF Key, Keys, Cacheable, Command

(* An entry, stored for the first time or again.                           *)
LEMMA EntryStored ==
  ASSUME CacheHolds, made \in Nat, NEW r \in BoardSends, Cacheable(r),
         NEW ids \in SUBSET (1 .. made), Kind[r] = "get" => ids = {Target[r]},
         cache' = [cache EXCEPT ![Key(r)] = Entry(ids)], made' = made
  PROVE  CacheHolds' /\ Stored' = [Stored EXCEPT ![Key(r)] = {ids}]
<1>1. Entry(ids).ids = ids /\ Entry(ids) # NoEntry
  <2>1. Entry(ids) \in [ids : SUBSET Nat, done : SUBSET Nat]
    BY DEF Entry
  <2>. QED  BY <2>1, BoardAssumption DEF Entry
<1>2. /\ DOMAIN cache' = DOMAIN cache /\ Key(r) \in DOMAIN cache
      /\ cache'[Key(r)] = Entry(ids)
      /\ \A k \in DOMAIN cache \ {Key(r)} : cache'[k] = cache[k]
  BY KeyOf DEF CacheHolds
<1>3. CacheHolds'
  <2>. SUFFICES ASSUME NEW k \in Keys, cache'[k] # NoEntry
                PROVE  cache'[k].ids \subseteq 1 .. made /\ (k[1] = "get" => cache'[k].ids = {k[2]})
    BY <1>2 DEF CacheHolds, Keys, Key, Cacheable, Command
  <2>1. CASE k = Key(r)
    BY <1>1, <1>2, <2>1, KeyOf
  <2>2. CASE k # Key(r)
    BY <1>2, <2>2 DEF CacheHolds
  <2>. QED  BY <2>1, <2>2
<1>. QED  BY <1>1, <1>2, <1>3 DEF Stored

LEMMA Returns ==
  ASSUME BoardInv, NEW r \in BoardSends, NEW kind, NEW ids \in SUBSET (1 .. made),
         Kind[r] = "get" => ids = {Target[r]}, Return(r, kind, ids)
  PROVE  CacheHolds' /\ Stored' = IF Cacheable(r) THEN [Stored EXCEPT ![Key(r)] = {ids}] ELSE Stored
<1>1. CASE Cacheable(r)
  BY <1>1, EntryStored DEF Return, BoardInv
<1>2. CASE ~Cacheable(r)
  <2>1. cache' = cache /\ made' = made
    BY <1>2 DEF Return
  <2>. QED  BY <1>2, <2>1 DEF BoardInv, CacheHolds, Stored, Keys, Key, Cacheable, Command
<1>. QED  BY <1>1, <1>2

LEMMA BoardStepHolds == BoardInv /\ [BoardNext]_boardVars => BoardInv'
<1> SUFFICES ASSUME BoardInv, [BoardNext]_boardVars PROVE BoardInv'
  OBVIOUS
<1>0. ASSUME UNCHANGED <<made, cache>> PROVE CacheHolds'
  BY <1>0 DEF BoardInv, CacheHolds, Keys, Key, Cacheable, Command
<1>1. CASE UNCHANGED boardVars
  BY <1>0, <1>1 DEF boardVars, BoardInv, Waits, Command
<1>2. ASSUME NEW r \in BoardSends, NEW markers, Await(r, markers), Command(r) => r \in MayWrite
      PROVE  BoardInv'
  BY <1>0, <1>2 DEF Await, Sent, BoardInv, Waits, Command
<1>3. ASSUME NEW r \in BoardSends, SendDenied(r) \/ CacheHit(r) \/ CancelSend(r)
      PROVE  BoardInv'
  <2>1. Waits'
    BY <1>3, Concludes DEF SendDenied, CacheHit, CancelSend, End, BoardInv
  <2>2. UNCHANGED <<made, cache>>
    BY <1>3 DEF SendDenied, CacheHit, CancelSend
  <2>. QED  BY <1>0, <2>1, <2>2 DEF BoardInv
<1>4. ASSUME NEW r \in BoardSends, AddTask(r) PROVE BoardInv'
  <2>1. Waits'
    BY <1>4, Concludes DEF AddTask, End, BoardInv
  <2>2. made' = made + 1 /\ cache' = cache
    BY <1>4 DEF AddTask
  <2>3. CacheHolds'
    BY <2>2 DEF BoardInv, CacheHolds, Keys, Key, Cacheable, Command
  <2>. QED  BY <2>1, <2>2, <2>3 DEF BoardInv
<1>5. ASSUME NEW r \in BoardSends, CompleteTask(r) PROVE BoardInv'
  <2>1. Waits'
    BY <1>5, Concludes DEF CompleteTask, Raise, End, BoardInv
  <2>2. UNCHANGED <<made, cache>>
    BY <1>5 DEF CompleteTask, Raise
  <2>. QED  BY <1>0, <2>1, <2>2 DEF BoardInv
<1>6. ASSUME NEW r \in BoardSends, GetTask(r) PROVE BoardInv'
  <2>1. Waits'
    BY <1>6, Concludes DEF GetTask, Return, Raise, End, BoardInv
  <2>2. CASE Target[r] \in 1 .. made
    BY <1>6, <2>1, <2>2, Returns DEF GetTask, Return, BoardInv
  <2>3. CASE Target[r] \notin 1 .. made
    BY <1>0, <1>6, <2>1, <2>3 DEF GetTask, Raise, BoardInv
  <2>. QED  BY <2>2, <2>3
<1>7. ASSUME NEW r \in BoardSends, ListOpenTasks(r) PROVE BoardInv'
  <2>1. Waits'
    BY <1>7, Concludes DEF ListOpenTasks, Return, End, BoardInv
  <2>. QED  BY <1>7, <2>1, Returns DEF ListOpenTasks, Return, BoardInv
<1>. QED  BY <1>1, <1>2, <1>3, <1>4, <1>5, <1>6, <1>7 DEF BoardNext, SendCommand, SendQuery

-----------------------------------------------------------------------------
(* A request that is answered for good is answered in the twin.            *)
LEMMA Responds ==
  ASSUME Waits, NEW r \in BoardSends, stage[r] \in {"idle", "awaiting"}, NEW given,
         answer' = [answer EXCEPT ![r] = given], given.kind # "cancelled"
  PROVE  Answered[r] = NoAnswer /\ Answered' = [Answered EXCEPT ![r] = given]
<1>1. answer[r] = NoAnswer /\ NoAnswer.kind = "none"
  BY DEF Waits, NoAnswer
<1>2. /\ answer'[r] = given
      /\ \A p \in BoardSends \ {r} : answer'[p] = answer[p]
  BY DEF Waits
<1>. QED  BY <1>1, <1>2 DEF Answered

LEMMA Kinds ==
  /\ \A kind, ids, finished : Shown(kind, ids, finished).kind = kind
  /\ \A error : Refusal(error).kind = error
  /\ Refusal("AccessDenied").kind # "cancelled" /\ Refusal("TaskNotFound").kind # "cancelled"
  /\ NoAnswer.kind = "none"
  BY DEF Shown, Refusal, NoAnswer

(* The twin says the same of a request, a key and an answer.               *)
LEMMA SameTerms ==
  /\ Sync!NoAnswer = NoAnswer /\ Sync!Keys = Keys
  /\ \A error : Sync!Refusal(error) = Refusal(error)
  /\ \A kind, ids, finished : Sync!Shown(kind, ids, finished) = Shown(kind, ids, finished)
  /\ \A r : Sync!Key(r) = Key(r) /\ (Sync!Cacheable(r) <=> Cacheable(r)) /\ (Sync!Command(r) <=> Command(r))
  BY DEF Sync!NoAnswer, NoAnswer, Sync!Keys, Keys, Sync!Refusal, Refusal, Sync!Shown, Shown,
         Sync!Key, Key, Sync!Cacheable, Cacheable, Sync!Command, Command

LEMMA BoardSimulates ==
  BoardInv /\ [BoardNext]_boardVars => [Sync!Next \/ Refills]_<<made, done, Stored, Answered>>
<1> SUFFICES ASSUME BoardInv, [BoardNext]_boardVars
             PROVE  Sync!Next \/ Refills \/ UNCHANGED <<made, done, Stored, Answered>>
  OBVIOUS
<1>. USE DEF BoardInv
<1>0. ASSUME cache' = cache PROVE Stored' = Stored
  BY <1>0 DEF Stored
<1>1. CASE UNCHANGED boardVars
  BY <1>1 DEF boardVars, Stored, Answered
<1>2. ASSUME NEW r \in BoardSends, NEW markers, Await(r, markers)
      PROVE  UNCHANGED <<made, done, Stored, Answered>>
  BY <1>2 DEF Await, Stored, Answered
<1>3. ASSUME NEW r \in BoardSends, SendDenied(r) PROVE Sync!Denied(r)
  <2>1. Answered[r] = NoAnswer /\ Answered' = [Answered EXCEPT ![r] = Refusal("AccessDenied")]
    BY <1>3, Responds, Kinds DEF SendDenied, Sent
  <2>2. Stored' = Stored
    BY <1>0, <1>3 DEF SendDenied
  <2>. QED  BY <1>3, <2>1, <2>2, SameTerms DEF SendDenied, Sync!Denied, Sync!Respond, Stored, Answered
<1>4. ASSUME NEW r \in BoardSends, NEW ids, Cacheable(r), stage[r] \in {"idle", "awaiting"},
             cache[Key(r)] # NoEntry, cache[Key(r)].ids = ids,
             answer' = [answer EXCEPT ![r] = Shown(IF Kind[r] = "get" THEN "task" ELSE "list", ids, done)],
             UNCHANGED <<made, done>>, Stored' = Stored
      PROVE  Sync!CacheHit(r)
  <2> DEFINE given == Shown(IF Kind[r] = "get" THEN "task" ELSE "list", ids, done)
  <2>1. Answered[r] = NoAnswer /\ Answered' = [Answered EXCEPT ![r] = given]
    <3>1. given.kind # "cancelled"
      BY Kinds
    <3>. QED  BY <1>4, <3>1, Responds
  <2>2. ids \in Stored[Key(r)]
    BY <1>4, KeyOf DEF Stored, CacheHolds
  <2>. QED  BY <1>4, <2>1, <2>2, SameTerms DEF Sync!CacheHit, Sync!Respond, Stored, Answered
<1>5. ASSUME NEW r \in BoardSends, CacheHit(r) PROVE Sync!CacheHit(r)
  <2> DEFINE ids == cache[Key(r)].ids
  <2>1. Shown(IF Kind[r] = "get" THEN "task" ELSE "list", ids, DoneOf(cache[Key(r)]))
        = Shown(IF Kind[r] = "get" THEN "task" ELSE "list", ids, done)
    BY DEF Shown, DoneOf
  <2>. QED  BY <1>0, <1>4, <1>5, <2>1 DEF CacheHit, Sent
<1>6. ASSUME NEW r \in BoardSends, AddTask(r) PROVE Sync!AddTask(r)
  <2> DEFINE given == Shown("task", {made + 1}, {})
  <2>1. Answered[r] = NoAnswer /\ Answered' = [Answered EXCEPT ![r] = given]
    <3>1. given.kind # "cancelled"
      BY Kinds
    <3>. QED  BY <1>6, <3>1, Responds DEF AddTask, End
  <2>2. Stored' = Stored /\ r \in MayWrite
    BY <1>0, <1>6 DEF AddTask, Waits, Command
  <2>. QED  BY <1>6, <2>1, <2>2, SameTerms DEF AddTask, Sync!AddTask, Sync!Respond, Stored, Answered
<1>7. ASSUME NEW r \in BoardSends, CompleteTask(r) PROVE Sync!CompleteTask(r)
  <2>2. Stored' = Stored /\ made' = made /\ r \in MayWrite /\ Kind[r] = "complete"
    BY <1>0, <1>7 DEF CompleteTask, Raise, Waits, Command
  <2>3. CASE Target[r] \in 1 .. made
    <3>1. Answered[r] = NoAnswer /\ Answered' = [Answered EXCEPT ![r] = Shown("task", {Target[r]}, done')]
      BY <1>7, <2>3, Responds, Kinds DEF CompleteTask, End
    <3>. QED  BY <1>7, <2>2, <2>3, <3>1, SameTerms
              DEF CompleteTask, Sync!CompleteTask, Sync!Respond, Stored, Answered
  <2>4. CASE Target[r] \notin 1 .. made
    <3>1. Answered[r] = NoAnswer /\ Answered' = [Answered EXCEPT ![r] = Refusal("TaskNotFound")]
      BY <1>7, <2>4, Responds, Kinds DEF CompleteTask, Raise, End
    <3>. QED  BY <1>7, <2>2, <2>4, <3>1, SameTerms
              DEF CompleteTask, Raise, Sync!CompleteTask, Sync!Respond, Stored, Answered
  <2>. QED  BY <2>3, <2>4
<1>8. ASSUME NEW r \in BoardSends, NEW kind \in {"task", "list"}, NEW ids \in SUBSET (1 .. made),
             Kind[r] = "get" => ids = {Target[r]}, stage[r] = "awaiting", Return(r, kind, ids)
      PROVE  /\ Answered[r] = Sync!NoAnswer
             /\ Answered' = [Answered EXCEPT ![r] = Sync!Shown(kind, ids, done)]
             /\ Stored' = IF Sync!Cacheable(r) THEN [Stored EXCEPT ![Sync!Key(r)] = {ids}] ELSE Stored
             /\ UNCHANGED <<made, done>>
  <2>1. Answered[r] = NoAnswer /\ Answered' = [Answered EXCEPT ![r] = Shown(kind, ids, done)]
    BY <1>8, Responds, Kinds DEF Return, End
  <2>2. Stored' = IF Cacheable(r) THEN [Stored EXCEPT ![Key(r)] = {ids}] ELSE Stored
    BY <1>8, Returns
  <2>. QED  BY <1>8, <2>1, <2>2, SameTerms DEF Return
<1>9. ASSUME NEW r \in BoardSends PROVE Sync!Missed(r) \/ (Cacheable(r) /\ cache[Key(r)] # NoEntry)
  <2>1. CASE Cacheable(r)
    <3>1. cache[Key(r)] = NoEntry => Stored[Key(r)] = {}
      BY <2>1, KeyOf DEF Stored, CacheHolds
    <3>. QED  BY <2>1, <3>1, SameTerms DEF Sync!Missed, Stored
  <2>. QED  BY <2>1, SameTerms DEF Sync!Missed
<1>10. ASSUME NEW r \in BoardSends, GetTask(r) PROVE Sync!GetTask(r) \/ Sync!CacheHit(r)
  <2>1. Kind[r] = "get" /\ stage[r] = "awaiting" /\ UNCHANGED <<made, done>>
    BY <1>10 DEF GetTask, Return, Raise
  <2>2. CASE Target[r] \in 1 .. made
    <3>1. Return(r, "task", {Target[r]}) /\ {Target[r]} \in SUBSET (1 .. made)
      BY <1>10, <2>2 DEF GetTask
    <3>2. CASE Sync!Missed(r)
      <4>1. Sync!Return(r, "task", {Target[r]})
        BY <1>8, <2>1, <3>1 DEF Sync!Return, Sync!Respond, Stored, Answered
      <4>. QED  BY <2>1, <2>2, <3>2, <4>1 DEF Sync!GetTask
    <3>3. CASE Cacheable(r) /\ cache[Key(r)] # NoEntry
      <4>1. cache[Key(r)].ids = {Target[r]} /\ Key(r) \in DOMAIN cache
        BY <2>1, <3>3, KeyOf DEF CacheHolds
      <4>2. Stored' = [Stored EXCEPT ![Key(r)] = {{Target[r]}}]
        BY <2>1, <3>1, <3>3, Returns
      <4>3. Stored[Key(r)] = {{Target[r]}} /\ Stored = [k \in DOMAIN Stored |-> Stored[k]]
        BY <3>3, <4>1 DEF Stored
      <4>4. Stored' = Stored
        BY <4>2, <4>3
      <4>. QED  BY <1>4, <2>1, <3>1, <3>3, <4>1, <4>4 DEF Return, End
    <3>. QED  BY <1>9, <3>2, <3>3
  <2>3. CASE Target[r] \notin 1 .. made
    <3>1. Answered[r] = NoAnswer /\ Answered' = [Answered EXCEPT ![r] = Refusal("TaskNotFound")]
      BY <1>10, <2>3, Responds, Kinds DEF GetTask, Raise, End
    <3>2. Stored' = Stored
      BY <1>0, <1>10, <2>3 DEF GetTask
    <3>3. Sync!Missed(r)
      BY <1>9, <2>1, <2>3, KeyOf DEF CacheHolds
    <3>. QED  BY <2>1, <2>3, <3>1, <3>2, <3>3, SameTerms
              DEF Sync!GetTask, Sync!Respond, Stored, Answered
  <2>. QED  BY <2>2, <2>3
<1>11. ASSUME NEW r \in BoardSends, ListOpenTasks(r) PROVE Sync!ListOpenTasks(r) \/ Refills
  <2>1. Sync!Return(r, "list", (1 .. made) \ done) /\ Kind[r] = "list" /\ stage[r] = "awaiting"
    <3>1. Return(r, "list", (1 .. made) \ done) /\ Kind[r] = "list" /\ stage[r] = "awaiting"
      BY <1>11 DEF ListOpenTasks
    <3>. QED  BY <1>8, <3>1 DEF Sync!Return, Sync!Respond, Stored, Answered
  <2>2. ASSUME Cacheable(r), cache[Key(r)] # NoEntry PROVE Stored[Key(r)] # {}
    BY <2>2, KeyOf DEF Stored, CacheHolds
  <2>3. Sync!Missed(r) \/ Sync!Refill(r)
    BY <1>9, <2>1, <2>2, SameTerms DEF Sync!Refill, Sync!Open, Stored
  <2>. QED  BY <2>1, <2>3 DEF Sync!ListOpenTasks, Sync!Open, Refills
<1>12. ASSUME NEW r \in BoardSends, CancelSend(r)
      PROVE  UNCHANGED <<made, done, Stored, Answered>>
  <2>1. /\ answer[r].kind = "none" /\ answer[r] = NoAnswer /\ answer'[r].kind = "cancelled"
        /\ \A p \in BoardSends \ {r} : answer'[p] = answer[p]
    BY <1>12, Kinds DEF CancelSend, End, Waits
  <2>. QED  BY <1>12, <2>1 DEF CancelSend, Stored, Answered
<1>. QED  BY <1>1, <1>2, <1>3, <1>5, <1>6, <1>7, <1>10, <1>11, <1>12
          DEF BoardNext, SendCommand, SendQuery, Sync!Next

(* The asynchronous board of 040-pipeline-behaviors answers every request  *)
(* as its synchronous twin could have, run in one go at the answer, however*)
(* requests overlap at the store, whichever of them are cancelled and      *)
(* whichever queries want the cache (CachingBehavior of behaviors.py); only*)
(* a list that missed together with another replaces that one's entry.     *)
THEOREM BoardMirrorsItsTwin == BoardSpec => MirrorsSyncBoard
<1>1. BoardInit => Sync!Init
  BY SameTerms, Kinds DEF BoardInit, Sync!Init
<1>. QED  BY <1>1, BoardInitHolds, BoardStepHolds, BoardSimulates, PTL
          DEF BoardSpec, MirrorsSyncBoard, Sync!boardState, Stored, Answered

(* What the trace of a request says while it waits, and when it is over.   *)
Begun(command) ==
  IF command THEN {<<"log:enter", "authorization", "transaction:enter">>}
  ELSE {<<"log:enter", "cache:miss">>, <<"log:enter">>}
Ending(given) == IF given.kind = "task" THEN "transaction:exit" ELSE "transaction:error"
Closed(s, given) ==
  /\ s[1] = "log:enter" /\ Last(s) = "log:exit"
  /\ "transaction:enter" \in Range(s) /\ given.kind # "cancelled" => s[Len(s) - 1] = Ending(given)

Stages == {"idle", "awaiting", "ended"}
Traces ==
  /\ DOMAIN trace = BoardSends
  /\ \A r \in BoardSends :
       /\ stage[r] = "awaiting" => trace[r] \in Begun(Command(r))
       /\ stage[r] = "ended" => Closed(trace[r], answer[r]) /\ answer[r] # NoAnswer
TracedInv == BoardInv /\ done \subseteq 1 .. made /\ stage \in [BoardSends -> Stages] /\ Traces

LEMMA InitTraced == BoardInit => TracedInv
  BY BoardInitHolds DEF BoardInit, TracedInv, Stages, Traces

(* The markers of the behaviors, outermost first.                          *)
LEMMA Opens ==
  /\ <<"log:enter">> \o <<"authorization", "transaction:enter">> \in Begun(TRUE)
  /\ <<"log:enter">> \o <<"cache:miss">> \in Begun(FALSE)
  /\ <<"log:enter">> \o <<>> \in Begun(FALSE)
<1>1. <<"log:enter", "authorization", "transaction:enter">> = <<"log:enter">> \o <<"authorization", "transaction:enter">>
  OBVIOUS
<1>2. <<"log:enter", "cache:miss">> = <<"log:enter">> \o <<"cache:miss">>
  OBVIOUS
<1>3. <<"log:enter">> = <<"log:enter">> \o <<>>
  OBVIOUS
<1>. QED  BY <1>1, <1>2, <1>3, Zenon DEF Begun

(* An end in the handler: the transaction of a command is closed by its    *)
(* marker, the last before the exit.                                       *)
LEMMA Closes ==
  ASSUME NEW command \in BOOLEAN, NEW s \in Begun(command), NEW given, NEW markers,
         markers = IF command /\ given.kind # "cancelled" THEN <<Ending(given)>> ELSE <<>>
  PROVE  Closed(s \o markers \o <<"log:exit">>, given)
<1>1. CASE command /\ given.kind # "cancelled"
  <2> DEFINE x == Ending(given)
             t == <<"log:enter", "authorization", "transaction:enter", x>>
             u == <<"log:enter", "authorization", "transaction:enter", x, "log:exit">>
  <2>1. s = <<"log:enter", "authorization", "transaction:enter">> /\ markers = <<x>>
    BY <1>1 DEF Begun
  <2> HIDE DEF x
  <2>2. t = <<"log:enter", "authorization", "transaction:enter">> \o <<x>>
    OBVIOUS
  <2>3. u = t \o <<"log:exit">>
    OBVIOUS
  <2>4. Len(u) = 5 /\ u[1] = "log:enter" /\ u[4] = x /\ u[5] = "log:exit"
    OBVIOUS
  <2>5. u = s \o markers \o <<"log:exit">>
    BY <2>1, <2>2, <2>3, Zenon
  <2> HIDE DEF u, t
  <2>6. Closed(u, given)
    BY <2>4 DEF Closed, Last, x
  <2>. QED  BY <2>5, <2>6, Zenon
<1>2. CASE command /\ given.kind = "cancelled"
  <2> DEFINE t == <<"log:enter", "authorization", "transaction:enter">>
             u == <<"log:enter", "authorization", "transaction:enter", "log:exit">>
  <2>1. s = t /\ markers = <<>>
    BY <1>2 DEF Begun
  <2>2. t = t \o <<>>
    OBVIOUS
  <2>3. u = t \o <<"log:exit">>
    OBVIOUS
  <2>4. Len(u) = 4 /\ u[1] = "log:enter" /\ u[4] = "log:exit"
    OBVIOUS
  <2>5. u = s \o markers \o <<"log:exit">>
    BY <2>1, <2>2, <2>3, Zenon
  <2> HIDE DEF u, t
  <2>6. Closed(u, given)
    BY <1>2, <2>4 DEF Closed, Last
  <2>. QED  BY <2>5, <2>6, Zenon
<1>3. ASSUME ~command, s = <<"log:enter">> PROVE Closed(s \o markers \o <<"log:exit">>, given)
  <2> DEFINE u == <<"log:enter", "log:exit">>
  <2>1. markers = <<>> /\ <<"log:enter">> = <<"log:enter">> \o <<>>
    BY <1>3
  <2>3. u = <<"log:enter">> \o <<"log:exit">>
    OBVIOUS
  <2>4. Len(u) = 2 /\ u[1] = "log:enter" /\ u[2] = "log:exit" /\ "transaction:enter" \notin Range(u)
    BY DEF Range
  <2>5. u = s \o markers \o <<"log:exit">>
    BY <1>3, <2>1, <2>3, Zenon
  <2> HIDE DEF u
  <2>6. Closed(u, given)
    BY <2>4 DEF Closed, Last
  <2>. QED  BY <2>5, <2>6, Zenon
<1>4. ASSUME ~command, s = <<"log:enter", "cache:miss">>
      PROVE  Closed(s \o markers \o <<"log:exit">>, given)
  <2> DEFINE u == <<"log:enter", "cache:miss", "log:exit">>
  <2>1. markers = <<>> /\ <<"log:enter", "cache:miss">> = <<"log:enter", "cache:miss">> \o <<>>
    BY <1>4
  <2>3. u = <<"log:enter", "cache:miss">> \o <<"log:exit">>
    OBVIOUS
  <2>4. Len(u) = 3 /\ u[1] = "log:enter" /\ u[3] = "log:exit" /\ "transaction:enter" \notin Range(u)
    BY DEF Range
  <2>5. u = s \o markers \o <<"log:exit">>
    BY <1>4, <2>1, <2>3, Zenon
  <2> HIDE DEF u
  <2>6. Closed(u, given)
    BY <2>4 DEF Closed, Last
  <2>. QED  BY <2>5, <2>6, Zenon
<1>. QED  BY <1>1, <1>2, <1>3, <1>4 DEF Begun

(* A hit and a refusal go through in one step.                             *)
LEMMA GoesThrough ==
  ASSUME NEW given, NEW s \in {<<"log:enter", "log:exit">>, <<"log:enter", "cache:hit", "log:exit">>}
  PROVE  Closed(s, given)
<1>1. CASE s = <<"log:enter", "log:exit">>
  BY <1>1 DEF Closed, Range, Last
<1>2. CASE s = <<"log:enter", "cache:hit", "log:exit">>
  BY <1>2 DEF Closed, Range, Last
<1>. QED  BY <1>1, <1>2

LEMMA AwaitTraced ==
  ASSUME TracedInv, NEW r \in BoardSends, NEW markers, Await(r, markers),
         <<"log:enter">> \o markers \in Begun(Command(r))
  PROVE  Traces' /\ stage' \in [BoardSends -> Stages]
<1>1. /\ stage' = [stage EXCEPT ![r] = "awaiting"] /\ answer' = answer
      /\ trace' = [trace EXCEPT ![r] = <<"log:enter">> \o markers]
  BY DEF Await
<1> DEFINE s == <<"log:enter">> \o markers
<1> HIDE DEF s
<1>2. /\ stage'[r] = "awaiting" /\ DOMAIN trace' = BoardSends /\ trace'[r] = s
      /\ \A q \in BoardSends \ {r} : stage'[q] = stage[q] /\ trace'[q] = trace[q]
      /\ stage' \in [BoardSends -> Stages]
  BY <1>1 DEF TracedInv, Traces, Stages, s
<1>. QED  BY <1>1, <1>2 DEF TracedInv, Traces, Command, s

LEMMA EndTraced ==
  ASSUME TracedInv, NEW r \in BoardSends, NEW given, given # NoAnswer, NEW s, Closed(s, given),
         stage' = [stage EXCEPT ![r] = "ended"], answer' = [answer EXCEPT ![r] = given],
         trace' = [trace EXCEPT ![r] = s]
  PROVE  Traces' /\ stage' \in [BoardSends -> Stages]
<1>1. /\ stage'[r] = "ended" /\ answer'[r] = given /\ DOMAIN trace' = BoardSends /\ trace'[r] = s
      /\ \A q \in BoardSends \ {r} : /\ stage'[q] = stage[q] /\ answer'[q] = answer[q]
                                     /\ trace'[q] = trace[q]
      /\ stage' \in [BoardSends -> Stages]
  BY DEF TracedInv, BoardInv, Waits, Traces, Stages
<1>2. Closed(trace'[r], answer'[r]) /\ answer'[r] # NoAnswer
  BY <1>1, Zenon
<1>3. ASSUME NEW q \in BoardSends
      PROVE  /\ stage'[q] = "awaiting" => trace'[q] \in Begun(Command(q))
             /\ stage'[q] = "ended" => Closed(trace'[q], answer'[q]) /\ answer'[q] # NoAnswer
  <2>1. CASE q = r
    BY <1>1, <1>2, <2>1
  <2>2. CASE q # r
    <3>1. stage'[q] = stage[q] /\ answer'[q] = answer[q] /\ trace'[q] = trace[q]
      BY <1>1, <2>2
    <3>. QED  BY <3>1 DEF TracedInv, Traces
  <2>. QED  BY <2>1, <2>2
<1>. QED  BY <1>1, <1>3 DEF Traces, Command

(* The handler's end, of a request that waited.                            *)
LEMMA HandlerEnds ==
  ASSUME TracedInv, NEW r \in BoardSends, stage[r] = "awaiting", NEW given, given # NoAnswer,
         NEW markers, End(r, given, markers),
         markers = IF Command(r) /\ given.kind # "cancelled" THEN <<Ending(given)>> ELSE <<>>
  PROVE  Traces' /\ stage' \in [BoardSends -> Stages]
<1>1. trace[r] \in Begun(Command(r)) /\ Command(r) \in BOOLEAN
  BY DEF TracedInv, Traces, Command
<1>2. Closed(trace[r] \o markers \o <<"log:exit">>, given)
  BY <1>1, Closes
<1>. QED  BY <1>2, EndTraced DEF End, LogExit

LEMMA Responses ==
  /\ \A ids, finished : \A kind \in {"task", "list"} :
       Shown(kind, ids, finished).kind = kind /\ Shown(kind, ids, finished) # NoAnswer
  /\ \A error \in {"AccessDenied", "TaskNotFound", "cancelled"} :
       Refusal(error).kind = error /\ Refusal(error) # NoAnswer
<1>1. NoAnswer.kind = "none"
  BY DEF NoAnswer
<1>2. \A kind, ids, finished : Shown(kind, ids, finished).kind = kind
  BY DEF Shown
<1>3. \A error \in {"AccessDenied", "TaskNotFound", "cancelled"} : Refusal(error).kind = error
  BY DEF Refusal, NoAnswer
<1>. QED  BY <1>1, <1>2, <1>3

LEMMA RaiseTraced ==
  ASSUME TracedInv, NEW r \in BoardSends, stage[r] = "awaiting", Raise(r, "TaskNotFound")
  PROVE  Traces' /\ stage' \in [BoardSends -> Stages]
<1> DEFINE given == Refusal("TaskNotFound")
           markers == IF Command(r) THEN <<"transaction:error">> ELSE <<>>
<1>1. given.kind = "TaskNotFound" /\ given # NoAnswer /\ End(r, given, markers)
  BY Responses DEF Raise
<1> HIDE DEF given
<1>2. markers = IF Command(r) /\ given.kind # "cancelled" THEN <<Ending(given)>> ELSE <<>>
  BY <1>1 DEF Ending
<1>. QED  BY <1>1, <1>2, HandlerEnds

LEMMA NextTraced == TracedInv /\ [BoardNext]_boardVars => TracedInv'
<1>. SUFFICES ASSUME TracedInv, [BoardNext]_boardVars PROVE TracedInv'
  OBVIOUS
<1>1. BoardInv' /\ made \in Nat /\ done \subseteq 1 .. made
  BY BoardStepHolds DEF TracedInv, BoardInv
<1>2. CASE UNCHANGED boardVars
  BY <1>1, <1>2 DEF boardVars, TracedInv, Traces, Command
<1>3. ASSUME NEW r \in BoardSends, SendCommand(r) PROVE TracedInv'
  <2>1. Await(r, <<"authorization", "transaction:enter">>) /\ Command(r)
    BY <1>3 DEF SendCommand
  <2>2. Command(r) = TRUE /\ UNCHANGED <<made, done>>
    BY <2>1 DEF Command, Await
  <2>3. <<"log:enter">> \o <<"authorization", "transaction:enter">> \in Begun(Command(r))
    BY <2>2, Opens, Zenon
  <2>. QED  BY <1>1, <2>1, <2>2, <2>3, AwaitTraced DEF TracedInv
<1>4. ASSUME NEW r \in BoardSends, SendQuery(r) PROVE TracedInv'
  <2> DEFINE m == IF Cacheable(r) THEN <<"cache:miss">> ELSE <<>>
  <2>1. Await(r, m) /\ Command(r) = FALSE
    BY <1>4 DEF SendQuery, Command
  <2>2. UNCHANGED <<made, done>>
    BY <2>1 DEF Await
  <2>3. <<"log:enter">> \o m \in Begun(Command(r))
    <3>1. CASE Cacheable(r)
      BY <2>1, <3>1, Opens, Zenon
    <3>2. CASE ~Cacheable(r)
      BY <2>1, <3>2, Opens, Zenon
    <3>. QED  BY <3>1, <3>2
  <2> HIDE DEF m
  <2>. QED  BY <1>1, <2>1, <2>2, <2>3, AwaitTraced DEF TracedInv
<1>5. ASSUME NEW r \in BoardSends, SendDenied(r) PROVE TracedInv'
  <2>1. /\ Refusal("AccessDenied") # NoAnswer /\ UNCHANGED <<made, done>>
        /\ Closed(<<"log:enter", "log:exit">>, Refusal("AccessDenied"))
    BY <1>5, Responses, GoesThrough DEF SendDenied
  <2>2. Traces' /\ stage' \in [BoardSends -> Stages]
    BY <1>5, <2>1, EndTraced DEF SendDenied
  <2>. QED  BY <1>1, <2>1, <2>2 DEF TracedInv
<1>6. ASSUME NEW r \in BoardSends, CacheHit(r) PROVE TracedInv'
  <2> DEFINE given == Shown(IF Kind[r] = "get" THEN "task" ELSE "list",
                            cache[Key(r)].ids, DoneOf(cache[Key(r)]))
  <2>1. /\ given # NoAnswer /\ UNCHANGED <<made, done>>
        /\ Closed(<<"log:enter", "cache:hit", "log:exit">>, given)
    BY <1>6, Responses, GoesThrough DEF CacheHit
  <2>2. Traces' /\ stage' \in [BoardSends -> Stages]
    BY <1>6, <2>1, EndTraced DEF CacheHit
  <2>. QED  BY <1>1, <2>1, <2>2 DEF TracedInv
<1>7. ASSUME NEW r \in BoardSends, AddTask(r) PROVE TracedInv'
  <2> DEFINE given == Shown("task", {made + 1}, {})
  <2>1. /\ stage[r] = "awaiting" /\ Command(r) /\ End(r, given, <<"transaction:exit">>)
        /\ done' = done /\ made' = made + 1
    BY <1>7 DEF AddTask, Command, Committed
  <2>2. given.kind = "task" /\ given # NoAnswer
    BY Responses
  <2> HIDE DEF given
  <2>3. <<"transaction:exit">> = IF Command(r) /\ given.kind # "cancelled" THEN <<Ending(given)>> ELSE <<>>
    BY <2>1, <2>2 DEF Ending
  <2>4. Traces' /\ stage' \in [BoardSends -> Stages]
    BY <2>1, <2>2, <2>3, HandlerEnds
  <2>5. done' \subseteq 1 .. made'
    BY <1>1, <2>1
  <2>. QED  BY <1>1, <2>4, <2>5 DEF TracedInv
<1>8. ASSUME NEW r \in BoardSends, CompleteTask(r) PROVE TracedInv'
  <2>1. stage[r] = "awaiting" /\ Command(r)
    BY <1>8 DEF CompleteTask, Command
  <2>2. CASE Target[r] \in 1 .. made
    <3> DEFINE given == Shown("task", {Target[r]}, done')
    <3>1. End(r, given, <<"transaction:exit">>) /\ done' = done \cup {Target[r]} /\ made' = made
      BY <1>8, <2>2 DEF CompleteTask, Committed
    <3>2. given.kind = "task" /\ given # NoAnswer
      BY Responses
    <3> HIDE DEF given
    <3>3. <<"transaction:exit">> = IF Command(r) /\ given.kind # "cancelled" THEN <<Ending(given)>> ELSE <<>>
      BY <2>1, <3>2 DEF Ending
    <3>4. Traces' /\ stage' \in [BoardSends -> Stages]
      BY <2>1, <3>1, <3>2, <3>3, HandlerEnds
    <3>5. done' \subseteq 1 .. made'
      BY <1>1, <2>2, <3>1
    <3>. QED  BY <1>1, <3>4, <3>5 DEF TracedInv
  <2>3. CASE ~(Target[r] \in 1 .. made)
    <3>1. Raise(r, "TaskNotFound") /\ UNCHANGED <<made, done>>
      BY <1>8, <2>3 DEF CompleteTask, Raise
    <3>. QED  BY <1>1, <2>1, <3>1, RaiseTraced DEF TracedInv
  <2>. QED  BY <2>2, <2>3
<1>9. ASSUME NEW r \in BoardSends, NEW kind \in {"task", "list"}, NEW ids, stage[r] = "awaiting",
             ~Command(r), Return(r, kind, ids)
      PROVE  TracedInv'
  <2>1. End(r, Shown(kind, ids, done), <<>>) /\ UNCHANGED <<made, done>>
    BY <1>9 DEF Return
  <2>2. Shown(kind, ids, done) # NoAnswer
    BY Responses
  <2>. QED  BY <1>1, <1>9, <2>1, <2>2, HandlerEnds DEF TracedInv
<1>10. ASSUME NEW r \in BoardSends, GetTask(r) \/ ListOpenTasks(r) PROVE TracedInv'
  <2>1. stage[r] = "awaiting" /\ ~Command(r)
    BY <1>10 DEF GetTask, ListOpenTasks, Command
  <2>2. CASE Raise(r, "TaskNotFound")
    <3>1. UNCHANGED <<made, done>>
      BY <2>2 DEF Raise
    <3>. QED  BY <1>1, <2>1, <2>2, <3>1, RaiseTraced DEF TracedInv
  <2>. QED  BY <1>9, <1>10, <2>1, <2>2 DEF GetTask, ListOpenTasks
<1>11. ASSUME NEW r \in BoardSends, CancelSend(r) PROVE TracedInv'
  <2>1. stage[r] = "awaiting" /\ UNCHANGED <<made, done>> /\ End(r, Refusal("cancelled"), <<>>)
    BY <1>11 DEF CancelSend
  <2>2. Refusal("cancelled").kind = "cancelled" /\ Refusal("cancelled") # NoAnswer
    BY Responses
  <2>. QED  BY <1>1, <2>1, <2>2, HandlerEnds DEF TracedInv
<1>. QED  BY <1>2, <1>3, <1>4, <1>5, <1>6, <1>7, <1>8, <1>9, <1>10, <1>11 DEF BoardNext

LEMMA AlwaysTracedInv == BoardSpec => []TracedInv
  BY InitTraced, NextTraced, PTL DEF BoardSpec

LEMMA TracesFollow == TracedInv => TraceIsBracketed
  BY DEF TracedInv, Traces, TraceIsBracketed, Closed, Ending

LEMMA BoardTypesFollow == TracedInv => BoardTypeOK
  BY DEF TracedInv, BoardInv, Waits, CacheHolds, Traces, Stages, BoardTypeOK

-----------------------------------------------------------------------------
(* VaultThreads.                                                           *)
USE DEF Original, NoReply

(* What a call has behind it at each of its steps: the behaviors let it    *)
(* through, the handler found its document and the authorizer agreed;      *)
(* nothing is recorded or answered before it is over.                      *)
Progress ==
  \A c \in Calls :
    /\ vaultPc[c] \in {"admitted", "loaded"} => FirstDenial(c) = "none"
    /\ vaultPc[c] = "loaded" => Op[c] = "edit" /\ Document[c] \in Documents /\ CanEdit(c)
    /\ vaultPc[c] # "replied" => audit[c] = <<>> /\ reply[c] = NoReply

Shape ==
  /\ DOMAIN reply = Calls
  /\ audit \in [Calls -> Seq({"unauthenticated", "role", "mfa"})]

VaultInv == VaultTypeOK /\ Shape /\ Progress /\ VaultIsGuarded

-----------------------------------------------------------------------------
(* A status the program answers with is not the absence of an answer.      *)
LEMMA RepliesOnce ==
  ASSUME NEW c \in Calls, NEW outcome \in {"ok", "unauthenticated", "forbidden", "missing"},
         NEW shows
  PROVE  LET r == [status |-> IF c \in Cli THEN ExitCode[outcome] ELSE HttpStatus[outcome],
                   shows |-> shows]
         IN  /\ r # NoReply
             /\ r.status \in {404, 3} <=> outcome = "missing"
  BY DEF ExitCode, HttpStatus

(* A call that no behavior denied is authenticated, and has the mfa claim  *)
(* if it edits.                                                            *)
LEMMA Undenied ==
  ASSUME NEW c \in Calls, FirstDenial(c) = "none"
  PROVE  /\ Authenticated(c) /\ c \in Cli \cup Bearer /\ Principal(c) = Token[c]
         /\ Token[c] # Nobody
         /\ Op[c] = "edit" => Token[c].mfa
  BY DEF FirstDenial, Authenticated, Principal, HasMfa, HasRole, MutatingCommand

LEMMA Denials ==
  ASSUME NEW c \in Calls
  PROVE  FirstDenial(c) \in {"none", "unauthenticated", "role", "mfa"}
  BY DEF FirstDenial

-----------------------------------------------------------------------------
LEMMA VaultInitHolds == VaultInit => VaultInv
  BY EmptySeq, SMT DEF VaultInit, VaultInv, VaultTypeOK, Shape, Progress, VaultIsGuarded,
     WritesAreAuthorized, ChecksComeFirst

(* The bookkeeping of an answer: the call is over, its answer is not the   *)
(* absence of one, and no other call is touched.                           *)
LEMMA ReplyStep ==
  ASSUME VaultTypeOK, Shape, NEW c \in Calls, NEW shows,
         NEW outcome \in {"ok", "unauthenticated", "forbidden", "missing"},
         Reply(c, outcome, shows)
  PROVE  /\ vaultPc' \in [Calls -> {"idle", "admitted", "loaded", "replied"}]
         /\ vaultPc'[c] = "replied" /\ reply'[c] # NoReply
         /\ reply'[c].status \in {404, 3} <=> outcome = "missing"
         /\ \A d \in Calls \ {c} : vaultPc'[d] = vaultPc[d] /\ reply'[d] = reply[d]
         /\ DOMAIN reply' = Calls
  BY RepliesOnce DEF Reply, VaultTypeOK, Shape

(* A step that ends a call, without a denial and without a write.          *)
LEMMA AnsweredStep ==
  ASSUME VaultInv, NEW c \in Calls, vaultPc[c] \in {"admitted", "loaded"}, NEW shows,
         NEW outcome \in {"ok", "forbidden", "missing"},
         Reply(c, outcome, shows), UNCHANGED <<body, audit>>
  PROVE  VaultInv'
  <1>1. /\ vaultPc' \in [Calls -> {"idle", "admitted", "loaded", "replied"}]
        /\ vaultPc'[c] = "replied" /\ reply'[c] # NoReply
        /\ \A d \in Calls \ {c} : vaultPc'[d] = vaultPc[d] /\ reply'[d] = reply[d]
        /\ DOMAIN reply' = Calls
    BY ReplyStep DEF VaultInv
  <1>2. VaultTypeOK' /\ Shape'
    BY <1>1 DEF VaultInv, VaultTypeOK, Shape
  <1>3. Progress'
    BY <1>1 DEF VaultInv, Progress, FirstDenial, CanEdit, Authenticated, Principal, HasMfa,
       HasRole, MutatingCommand, RequiresRole
  <1>4. WritesAreAuthorized'
    BY DEF VaultInv, VaultIsGuarded, WritesAreAuthorized
  <1>5. FirstDenial(c) = "none" /\ audit[c] = <<>> /\ Authenticated(c) /\ (Op[c] = "edit" => Token[c].mfa)
    BY Undenied DEF VaultInv, Progress
  <1>6. ChecksComeFirst'
    <2> SUFFICES ASSUME NEW d \in Calls, vaultPc'[d] = "replied"
                 PROVE  /\ reply'[d].status \in {404, 3} =>
                             Authenticated(d) /\ (Op[d] = "edit" => Token[d].mfa)
                        /\ audit[d] # <<>> <=> FirstDenial(d) # "none"
                        /\ Len(audit[d]) <= 1
      BY DEF ChecksComeFirst, FirstDenial, Authenticated, Principal, HasMfa, HasRole,
         MutatingCommand, RequiresRole
    <2>1. CASE d = c
      BY <1>5, <2>1, EmptySeq
    <2>2. CASE d # c
      BY <1>1, <2>2 DEF VaultInv, VaultIsGuarded, ChecksComeFirst
    <2> QED BY <2>1, <2>2
  <1> QED BY <1>2, <1>3, <1>4, <1>6 DEF VaultInv, VaultIsGuarded

(* A denied call leaves its one audit entry.                               *)
LEMMA DeniedStep ==
  ASSUME VaultInv, NEW c \in Calls, Check(c), FirstDenial(c) # "none"
  PROVE  VaultInv'
  <1>1. /\ vaultPc' \in [Calls -> {"idle", "admitted", "loaded", "replied"}]
        /\ vaultPc'[c] = "replied" /\ reply'[c] # NoReply
        /\ ~(reply'[c].status \in {404, 3})
        /\ \A d \in Calls \ {c} : vaultPc'[d] = vaultPc[d] /\ reply'[d] = reply[d]
        /\ DOMAIN reply' = Calls
    <2>1. PICK outcome \in {"forbidden", "unauthenticated"} : Reply(c, outcome, {})
      BY DEF Check
    <2> QED BY <2>1, ReplyStep DEF VaultInv
  <1>2. vaultPc[c] = "idle" /\ body' = body /\ audit' = [audit EXCEPT ![c] = Append(@, FirstDenial(c))]
    BY DEF Check
  <1>3. audit[c] = <<>> /\ audit'[c] = Append(<<>>, FirstDenial(c))
    BY <1>2 DEF VaultInv, Progress, Shape
  <1>4. /\ audit'[c] \in Seq({"unauthenticated", "role", "mfa"})
        /\ audit'[c] # <<>> /\ Len(audit'[c]) <= 1
    <2>1. <<>> \in Seq({"unauthenticated", "role", "mfa"})
      BY EmptySeq
    <2>2. FirstDenial(c) \in {"unauthenticated", "role", "mfa"}
      BY Denials
    <2>3. /\ Append(<<>>, FirstDenial(c)) \in Seq({"unauthenticated", "role", "mfa"})
          /\ Append(<<>>, FirstDenial(c)) # <<>> /\ Len(Append(<<>>, FirstDenial(c))) <= 1
      BY <2>1, <2>2, AppendProperties, SMT
    <2> QED BY <1>3, <2>3
  <1>4a. /\ audit' \in [Calls -> Seq({"unauthenticated", "role", "mfa"})]
         /\ \A d \in Calls \ {c} : audit'[d] = audit[d]
    BY <1>2, <1>3, <1>4, Zenon DEF VaultInv, Shape
  <1>5. VaultTypeOK' /\ Shape'
    <2>1. Shape'
      BY <1>1, <1>4a DEF Shape
    <2>2. \A d \in Calls : vaultPc'[d] = "replied" <=> reply'[d] # NoReply
      BY <1>1 DEF VaultInv, VaultTypeOK
    <2> QED BY <1>1, <1>2, <2>1, <2>2 DEF VaultInv, VaultTypeOK
  <1>6. Progress'
    BY <1>1, <1>2 DEF VaultInv, Shape, Progress, FirstDenial, CanEdit, Authenticated, Principal,
       HasMfa, HasRole, MutatingCommand, RequiresRole
  <1>7. WritesAreAuthorized'
    BY <1>2 DEF VaultInv, VaultIsGuarded, WritesAreAuthorized
  <1>8. ChecksComeFirst'
    <2> SUFFICES ASSUME NEW d \in Calls, vaultPc'[d] = "replied"
                 PROVE  /\ reply'[d].status \in {404, 3} =>
                             Authenticated(d) /\ (Op[d] = "edit" => Token[d].mfa)
                        /\ audit'[d] # <<>> <=> FirstDenial(d) # "none"
                        /\ Len(audit'[d]) <= 1
      BY DEF ChecksComeFirst, FirstDenial, Authenticated, Principal, HasMfa, HasRole,
         MutatingCommand, RequiresRole
    <2>1. CASE d = c
      <3>1. ~(reply'[d].status \in {404, 3})
        BY <1>1, <2>1
      <3>2. audit'[d] # <<>> /\ FirstDenial(d) # "none" /\ Len(audit'[d]) <= 1
        BY <1>4, <2>1
      <3> QED BY <3>1, <3>2
    <2>2. CASE d # c
      BY <1>1, <1>4a, <2>2 DEF VaultInv, VaultIsGuarded, ChecksComeFirst
    <2> QED BY <2>1, <2>2
  <1> QED BY <1>5, <1>6, <1>7, <1>8 DEF VaultInv, VaultIsGuarded

(* The write: the checks made before it still hold, as they depend only on *)
(* the call and on who owns the document.                                  *)
LEMMA SavedStep ==
  ASSUME VaultInv, NEW c \in Calls, SaveDocument(c)
  PROVE  VaultInv'
  <1>1. /\ vaultPc[c] = "loaded" /\ FirstDenial(c) = "none"
        /\ Document[c] \in Documents /\ CanEdit(c) /\ Op[c] = "edit"
        /\ Principal(c) = Token[c] /\ Token[c] # Nobody /\ Token[c].mfa
        /\ c \in Cli \cup Bearer /\ Authenticated(c)
        /\ audit[c] = <<>>
    BY Undenied DEF SaveDocument, VaultInv, Progress
  <1>2. /\ vaultPc' \in [Calls -> {"idle", "admitted", "loaded", "replied"}]
        /\ vaultPc'[c] = "replied" /\ reply'[c] # NoReply
        /\ \A d \in Calls \ {c} : vaultPc'[d] = vaultPc[d] /\ reply'[d] = reply[d]
        /\ DOMAIN reply' = Calls
    BY ReplyStep DEF SaveDocument, VaultInv
  <1>3. audit' = audit
    BY DEF SaveDocument
  <1>4. VaultTypeOK'
    <2>1. body' \in [Documents -> Calls \cup {Original}]
      BY <1>1 DEF SaveDocument, VaultInv, VaultTypeOK
    <2>2. \A d \in Calls : vaultPc'[d] = "replied" <=> reply'[d] # NoReply
      BY <1>2 DEF VaultInv, VaultTypeOK
    <2> QED BY <1>2, <2>1, <2>2 DEF VaultTypeOK
  <1>5. Shape'
    BY <1>2, <1>3 DEF VaultInv, Shape
  <1>6. Progress'
    BY <1>2, <1>3 DEF VaultInv, Progress, FirstDenial, CanEdit, Authenticated, Principal,
       HasMfa, HasRole, MutatingCommand, RequiresRole
  <1>7. WritesAreAuthorized'
    <2> SUFFICES ASSUME NEW d \in Documents, body'[d] # Original
                 PROVE  /\ Document[body'[d]] = d /\ body'[d] \in Bearer /\ Token[body'[d]] # Nobody
                        /\ Token[body'[d]].mfa
                        /\ Token[body'[d]].id = Owner[d] \/ Token[body'[d]].admin
      BY DEF WritesAreAuthorized
    <2>1. CASE c \notin Cli /\ d = Document[c]
      <3>1. body'[d] = c
        BY <2>1 DEF SaveDocument, VaultInv, VaultTypeOK
      <3> QED BY <1>1, <2>1, <3>1 DEF CanEdit
    <2>2. CASE c \in Cli \/ d # Document[c]
      <3>1. body'[d] = body[d]
        BY <2>2 DEF SaveDocument, VaultInv, VaultTypeOK
      <3> QED BY <3>1 DEF VaultInv, VaultIsGuarded, WritesAreAuthorized
    <2> QED BY <2>1, <2>2
  <1>8. ChecksComeFirst'
    <2> SUFFICES ASSUME NEW d \in Calls, vaultPc'[d] = "replied"
                 PROVE  /\ reply'[d].status \in {404, 3} =>
                             Authenticated(d) /\ (Op[d] = "edit" => Token[d].mfa)
                        /\ audit[d] # <<>> <=> FirstDenial(d) # "none"
                        /\ Len(audit[d]) <= 1
      BY <1>3 DEF ChecksComeFirst, FirstDenial, Authenticated, Principal, HasMfa, HasRole,
         MutatingCommand, RequiresRole
    <2>1. CASE d = c
      BY <1>1, <2>1, EmptySeq
    <2>2. CASE d # c
      BY <1>2, <2>2 DEF VaultInv, VaultIsGuarded, ChecksComeFirst
    <2> QED BY <2>1, <2>2
  <1> QED BY <1>4, <1>5, <1>6, <1>7, <1>8 DEF VaultInv, VaultIsGuarded

(* A call that passes a check, or the authorizer: nothing is visible yet.  *)
LEMMA AdvancedStep ==
  ASSUME VaultInv, NEW c \in Calls, NEW to \in {"admitted", "loaded"},
         vaultPc[c] # "replied", FirstDenial(c) = "none",
         to = "loaded" => Op[c] = "edit" /\ Document[c] \in Documents /\ CanEdit(c),
         vaultPc' = [vaultPc EXCEPT ![c] = to], UNCHANGED <<body, audit, reply>>
  PROVE  VaultInv'
  <1>1. VaultTypeOK' /\ Shape'
    BY DEF VaultInv, VaultTypeOK, Shape
  <1>2. Progress'
    BY DEF VaultInv, VaultTypeOK, Progress, FirstDenial, CanEdit, Authenticated, Principal,
       HasMfa, HasRole, MutatingCommand, RequiresRole
  <1>3. VaultIsGuarded'
    BY DEF VaultInv, VaultTypeOK, VaultIsGuarded, WritesAreAuthorized, ChecksComeFirst,
       FirstDenial, Authenticated, Principal, HasMfa, HasRole, MutatingCommand, RequiresRole
  <1> QED BY <1>1, <1>2, <1>3 DEF VaultInv

LEMMA VaultStepHolds == VaultInv /\ [VaultNext]_vaultVars => VaultInv'
  <1> SUFFICES ASSUME VaultInv, [VaultNext]_vaultVars PROVE VaultInv'
    OBVIOUS
  <1>1. ASSUME NEW c \in Calls, Check(c) PROVE VaultInv'
    <2>1. CASE FirstDenial(c) = "none"
      <3> vaultPc[c] = "idle" /\ vaultPc' = [vaultPc EXCEPT ![c] = "admitted"]
            /\ UNCHANGED <<body, audit, reply>>
        BY <1>1, <2>1 DEF Check
      <3> QED BY <2>1, AdvancedStep
    <2>2. CASE FirstDenial(c) # "none"
      BY <1>1, <2>2, DeniedStep
    <2> QED BY <2>1, <2>2
  <1>2. ASSUME NEW c \in Calls, ViewDocument(c) PROVE VaultInv'
    <2>1. PICK outcome, shows :
            outcome \in {"ok", "missing"} /\ Reply(c, outcome, shows) /\ vaultPc[c] = "admitted" /\ UNCHANGED <<body, audit>>
      BY <1>2 DEF ViewDocument
    <2> QED BY <2>1, AnsweredStep
  <1>3. ASSUME NEW c \in Calls, ListAllDocuments(c) PROVE VaultInv'
    <2>1. PICK shows :
            Reply(c, "ok", shows) /\ vaultPc[c] = "admitted" /\ UNCHANGED <<body, audit>>
      BY <1>3 DEF ListAllDocuments
    <2> QED BY <2>1, AnsweredStep
  <1>4. ASSUME NEW c \in Calls, LoadDocument(c) PROVE VaultInv'
    <2>1. vaultPc[c] = "admitted" /\ Op[c] = "edit" /\ FirstDenial(c) = "none"
          /\ UNCHANGED <<body, audit>>
      BY <1>4 DEF LoadDocument, VaultInv, Progress
    <2>2. CASE Document[c] \in Documents /\ CanEdit(c)
      <3> vaultPc' = [vaultPc EXCEPT ![c] = "loaded"] /\ UNCHANGED reply
        BY <1>4, <2>2 DEF LoadDocument
      <3> QED BY <2>1, <2>2, AdvancedStep
    <2>3. CASE ~(Document[c] \in Documents /\ CanEdit(c))
      <3>1. PICK outcome \in {"forbidden", "missing"} : Reply(c, outcome, {})
        BY <1>4, <2>3 DEF LoadDocument
      <3> QED BY <2>1, <3>1, AnsweredStep
    <2> QED BY <2>2, <2>3
  <1>5. ASSUME NEW c \in Calls, SaveDocument(c) PROVE VaultInv'
    BY <1>5, SavedStep
  <1>6. CASE UNCHANGED vaultVars
    BY <1>6 DEF vaultVars, VaultInv, VaultTypeOK, Shape, Progress, VaultIsGuarded,
       WritesAreAuthorized, ChecksComeFirst, FirstDenial, CanEdit, Authenticated, Principal,
       HasMfa, HasRole, MutatingCommand, RequiresRole
  <1> QED BY <1>1, <1>2, <1>3, <1>4, <1>5, <1>6 DEF VaultNext

LEMMA AlwaysVaultInv == VaultSpec => []VaultInv
  BY VaultInitHolds, VaultStepHolds, PTL DEF VaultSpec

(* Every body in the store is the default or the edit of an authenticated  *)
(* caller with the mfa claim who owns the document or is an admin, and a   *)
(* denied call is audited once: src/vault/core.py of 075, on threads.      *)
THEOREM Guarded == VaultSpec => []VaultIsGuarded
  <1>1. VaultInv => VaultIsGuarded
    BY DEF VaultInv
  <1> QED BY <1>1, AlwaysVaultInv, PTL

-----------------------------------------------------------------------------
(* The refinement: checks and loads stutter, answers and saves are calls.  *)
LEMMA SameDenial ==
  ASSUME NEW c \in Calls
  PROVE  Async!Denial(c) = IF FirstDenial(c) = "none" THEN <<>> ELSE <<FirstDenial(c)>>
  <1> DEFINE S == {"unauthenticated", "role", "mfa"}
  <1>1. /\ <<>> \in Seq(S) /\ <<"role">> \in Seq(S) /\ <<"mfa">> \in Seq(S)
    OBVIOUS
  <1>2. /\ <<>> \o <<>> = <<>> /\ <<"role">> \o <<>> = <<"role">>
        /\ <<>> \o <<"mfa">> = <<"mfa">>
    BY <1>1, ConcatEmptySeq, Zenon
  <1>3. CASE ~Authenticated(c)
    BY <1>3 DEF Async!Denial, Async!RequireAuthentication, Async!Authenticated, Authenticated,
       Async!Principal, Principal, FirstDenial
  <1>4. CASE Authenticated(c) /\ Op[c] = "list"
    BY <1>2, <1>4 DEF Async!Denial, Async!RequireRole, Async!RequireMfa, Async!Authenticated,
       Async!Principal, Async!RequiresRole, Async!MutatingCommand, Authenticated, Principal,
       FirstDenial, HasRole, HasMfa, RequiresRole, MutatingCommand
  <1>5. CASE Authenticated(c) /\ Op[c] # "list"
    BY <1>2, <1>5 DEF Async!Denial, Async!RequireRole, Async!RequireMfa, Async!Authenticated,
       Async!Principal, Async!RequiresRole, Async!MutatingCommand, Authenticated, Principal,
       FirstDenial, HasRole, HasMfa, RequiresRole, MutatingCommand
  <1> QED BY <1>3, <1>4, <1>5

LEMMA SameReply ==
  ASSUME VaultInv, NEW c \in Calls, vaultPc[c] # "replied", NEW shows, NEW outcome,
         Reply(c, outcome, shows)
  PROVE  Async!Reply(c, outcome, shows)
  BY DEF Reply, Async!Reply, Async!NoReply, Async!Status, Async!ExitCode, Async!HttpStatus,
     ExitCode, HttpStatus, VaultInv, Progress

LEMMA StepSimulation ==
  VaultInv /\ [VaultNext]_vaultVars => [Async!Next]_<<body, audit, reply>>
  <1> SUFFICES ASSUME VaultInv, [VaultNext]_vaultVars
               PROVE  Async!Next \/ UNCHANGED <<body, audit, reply>>
    OBVIOUS
  <1>1. ASSUME NEW c \in Calls, Check(c) PROVE Async!Deny(c) \/ UNCHANGED <<body, audit, reply>>
    <2>1. CASE FirstDenial(c) = "none"
      BY <1>1, <2>1 DEF Check
    <2>2. CASE FirstDenial(c) # "none"
      <3>1. Async!Denial(c) = <<FirstDenial(c)>>
        BY <2>2, SameDenial
      <3>2. /\ Reply(c, IF Authenticated(c) THEN "forbidden" ELSE "unauthenticated", {})
            /\ audit' = [audit EXCEPT ![c] = Append(@, FirstDenial(c))]
            /\ body' = body /\ vaultPc[c] = "idle"
        BY <1>1, <2>2 DEF Check
      <3>3. Append(audit[c], FirstDenial(c)) = audit[c] \o <<FirstDenial(c)>>
        <4>1. audit[c] \in Seq({"unauthenticated", "role", "mfa"})
          BY DEF VaultInv, Shape
        <4>2. FirstDenial(c) \in {"unauthenticated", "role", "mfa"}
          BY <2>2, Denials
        <4> QED BY <4>1, <4>2, AppendIsConcat
      <3>4. audit' = [audit EXCEPT ![c] = @ \o Async!Denial(c)]
        BY <3>1, <3>2, <3>3, Zenon
      <3>5. Async!Reply(c, IF Async!Authenticated(c) THEN "forbidden" ELSE "unauthenticated", {})
        BY <3>2, SameReply DEF Async!Authenticated, Async!Principal, Authenticated, Principal
      <3>6. Async!Denial(c) # <<>>
        BY <3>1
      <3> QED BY <3>2, <3>4, <3>5, <3>6 DEF Async!Deny
    <2> QED BY <2>1, <2>2
  <1>2. ASSUME NEW c \in Calls, ViewDocument(c) PROVE Async!ViewDocument(c)
    <2>1. FirstDenial(c) = "none"
      BY <1>2 DEF ViewDocument, VaultInv, Progress
    <2>2. Store(c) = Async!Store(c)
      BY DEF Store, Async!Store, Async!Original
    <2> QED BY <1>2, <2>1, <2>2, SameDenial, SameReply DEF ViewDocument, Async!ViewDocument
  <1>3. ASSUME NEW c \in Calls, ListAllDocuments(c) PROVE Async!ListAllDocuments(c)
    <2>1. FirstDenial(c) = "none"
      BY <1>3 DEF ListAllDocuments, VaultInv, Progress
    <2>2. Store(c) = Async!Store(c)
      BY DEF Store, Async!Store, Async!Original
    <2> QED BY <1>3, <2>1, <2>2, SameDenial, SameReply
            DEF ListAllDocuments, Async!ListAllDocuments
  <1>4. ASSUME NEW c \in Calls, LoadDocument(c)
        PROVE  Async!EditDocument(c) \/ UNCHANGED <<body, audit, reply>>
    <2>1. FirstDenial(c) = "none"
      BY <1>4 DEF LoadDocument, VaultInv, Progress
    <2>2. CanEdit(c) = Async!CanEdit(c)
      BY DEF CanEdit, Async!CanEdit, Principal, Async!Principal
    <2> QED BY <1>4, <2>1, <2>2, SameDenial, SameReply DEF LoadDocument, Async!EditDocument
  <1>5. ASSUME NEW c \in Calls, SaveDocument(c) PROVE Async!EditDocument(c)
    <2>1. FirstDenial(c) = "none" /\ Op[c] = "edit" /\ Document[c] \in Documents /\ CanEdit(c)
      BY <1>5 DEF SaveDocument, VaultInv, Progress
    <2>2. CanEdit(c) = Async!CanEdit(c)
      BY DEF CanEdit, Async!CanEdit, Principal, Async!Principal
    <2> QED BY <1>5, <2>1, <2>2, SameDenial, SameReply DEF SaveDocument, Async!EditDocument
  <1>6. CASE UNCHANGED vaultVars
    BY <1>6 DEF vaultVars
  <1> QED BY <1>1, <1>2, <1>3, <1>4, <1>5, <1>6 DEF VaultNext, Async!Next

(* FastAPI's threads overlap the calls of the synchronous vault, and what  *)
(* they answer, record and write is what the asynchronous vault could have *)
(* answered, recorded and written one call at a time.                      *)
THEOREM MirrorsAsync == VaultSpec => MirrorsAsyncVault
  <1>1. VaultInit => Async!Init
    BY DEF VaultInit, Async!Init, Async!Original, Async!NoReply
  <1> QED BY <1>1, StepSimulation, AlwaysVaultInv, PTL DEF VaultSpec, MirrorsAsyncVault, Async!Spec

-----------------------------------------------------------------------------
(* Scopes.                                                                 *)
LogEntry == [kind : {"begin", "commit", "registered"}, user : Nat]
Logs == Seq(LogEntry)

(* A log whose registrations and commits are in order, wherever it ends.   *)
Sound(log) ==
  \A i \in DOMAIN log :
    /\ log[i].kind = "registered" =>
         i > 1 /\ i < Len(log) /\ log[i - 1] = Begin /\ log[i + 1] = Commit
    /\ log[i] = Commit => i > 1 /\ log[i - 1] # Commit

ScopeTypes ==
  /\ Root \in alive /\ users \in Nat /\ unit \in [Contexts -> 0 .. Len(entries)]
  /\ entries \in Seq(Logs)
  /\ tally \in [registered : Nat, found : Nat, missed : Nat]
  /\ users = tally.registered
  /\ tally.registered + tally.found + tally.missed <= MaxDispatch

Accounts ==
  /\ Total(Begin) = tally.registered + tally.found + tally.missed
  /\ Total(Commit) = tally.registered + tally.found
  /\ \A id \in Nat : id > 0 => Total(Registered(id)) = IF id <= users THEN 1 ELSE 0

ScopesInv == ScopeTypes /\ (\A u \in DOMAIN entries : Sound(entries[u])) /\ Accounts

-----------------------------------------------------------------------------
LEMMA Marks ==
  /\ Begin \in LogEntry /\ Commit \in LogEntry /\ Begin # Commit
  /\ Begin.kind = "begin" /\ Commit.kind = "commit"
  /\ \A id \in Nat : /\ Registered(id) \in LogEntry /\ Registered(id).kind = "registered"
                     /\ Registered(id) # Begin /\ Registered(id) # Commit
                     /\ \A j \in Nat : Registered(j) = Registered(id) <=> j = id
<1>1. Begin \in LogEntry /\ Commit \in LogEntry /\ Begin.kind = "begin" /\ Commit.kind = "commit"
  BY DEF Begin, Commit, Mark, LogEntry
<1>2. ASSUME NEW id \in Nat
      PROVE  Registered(id) \in LogEntry /\ Registered(id).kind = "registered" /\ Registered(id).user = id
  BY DEF Registered, LogEntry
<1>. QED  BY <1>1, <1>2

LEMMA CountNone == ASSUME NEW mark PROVE Count(<<>>, mark) = 0
<1>1. Selected(<<>>, {mark}) = <<>>
  BY SelectedEmpty
<1>. QED  BY <1>1 DEF Count

LEMMA CountAppend ==
  ASSUME NEW s \in Logs, NEW x \in LogEntry, NEW mark
  PROVE  /\ Append(s, x) \in Logs /\ Count(s, mark) \in Nat
         /\ Count(Append(s, x), mark) = Count(s, mark) + IF x = mark THEN 1 ELSE 0
<1>1. Selected(s, {mark}) \in Seq(LogEntry \cap {mark})
  BY SelectedType DEF Logs
<1>2. Selected(Append(s, x), {mark}) = IF x \in {mark} THEN Append(Selected(s, {mark}), x) ELSE Selected(s, {mark})
  BY SelectedAppend DEF Logs
<1>3. Append(s, x) \in Logs
  BY DEF Logs
<1> DEFINE k == Selected(s, {mark})
<1> HIDE DEF k
<1>4. Len(k) \in Nat /\ (x = mark => Len(Append(k, x)) = Len(k) + 1)
  BY <1>1 DEF k
<1>. QED  BY <1>2, <1>3, <1>4 DEF Count, k

LEMMA ConcatAppends ==
  ASSUME NEW s \in Logs, NEW x \in LogEntry, NEW y \in LogEntry, NEW z \in LogEntry
  PROVE  /\ s \o <<x>> = Append(s, x)
         /\ s \o <<x, y>> = Append(Append(s, x), y)
         /\ s \o <<x, y, z>> = Append(Append(Append(s, x), y), z)
<1>1. <<x, y>> = <<x>> \o <<y>>
  BY PairIs
<1>2. <<x, y, z>> = <<x, y>> \o <<z>>
  BY TripleIs
<1>3. <<x>> \in Logs /\ <<y>> \in Logs /\ <<z>> \in Logs
  BY DEF Logs
<1>4. <<x, y>> \in Logs
  BY DEF Logs
<1>5. s \o <<x>> = Append(s, x) /\ Append(s, x) \in Logs
  BY AppendIsConcat DEF Logs
<1>6. s \o <<x, y>> = Append(s, x) \o <<y>>
  <2>1. (s \o <<x>>) \o <<y>> = s \o (<<x>> \o <<y>>)
    BY <1>3, ConcatAssociative DEF Logs
  <2>. QED  BY <1>1, <1>5, <2>1, Zenon
<1>7. Append(s, x) \o <<y>> = Append(Append(s, x), y) /\ Append(Append(s, x), y) \in Logs
  BY <1>5, AppendIsConcat DEF Logs
<1>8. s \o <<x, y, z>> = Append(Append(s, x), y) \o <<z>>
  <2>1. (s \o <<x, y>>) \o <<z>> = s \o (<<x, y>> \o <<z>>)
    BY <1>3, <1>4, ConcatAssociative DEF Logs
  <2>. QED  BY <1>2, <1>6, <1>7, <2>1, Zenon
<1>9. Append(Append(s, x), y) \o <<z>> = Append(Append(Append(s, x), y), z)
  BY <1>7, AppendIsConcat DEF Logs
<1>. QED  BY <1>5, <1>6, <1>7, <1>8, <1>9, Zenon

(* What one dispatch writes goes after what the log says already.          *)
LEMMA SoundConcat ==
  ASSUME NEW s \in Logs, Sound(s), NEW t \in Logs, Sound(t)
  PROVE  s \o t \in Logs /\ Sound(s \o t)
<1> DEFINE w == s \o t
<1>1. /\ w \in Logs /\ Len(w) = Len(s) + Len(t) /\ Len(s) \in Nat /\ Len(t) \in Nat
      /\ DOMAIN s = 1 .. Len(s) /\ DOMAIN t = 1 .. Len(t) /\ DOMAIN w = 1 .. Len(w)
      /\ \A i \in 1 .. Len(s) + Len(t) : w[i] = IF i <= Len(s) THEN s[i] ELSE t[i - Len(s)]
  BY ConcatProperties DEF Logs
<1> HIDE DEF w
<1>2. ASSUME NEW i \in 1 .. Len(w)
      PROVE  /\ w[i].kind = "registered" =>
                  i > 1 /\ i < Len(w) /\ w[i - 1] = Begin /\ w[i + 1] = Commit
             /\ w[i] = Commit => i > 1 /\ w[i - 1] # Commit
  <2>1. CASE i <= Len(s)
    <3>1. w[i] = s[i] /\ i \in DOMAIN s
      BY <1>1, <2>1
    <3>2. i > 1 => w[i - 1] = s[i - 1]
      BY <1>1, <2>1
    <3>3. i < Len(s) => w[i + 1] = s[i + 1] /\ i < Len(w)
      BY <1>1, <2>1
    <3>. QED  BY <3>1, <3>2, <3>3 DEF Sound
  <2>2. CASE i > Len(s)
    <3> DEFINE j == i - Len(s)
    <3>1. w[i] = t[j] /\ j \in DOMAIN t
      BY <1>1, <2>2
    <3>2. j > 1 => w[i - 1] = t[j - 1] /\ i > 1
      BY <1>1, <2>2
    <3>3. j < Len(t) => w[i + 1] = t[j + 1] /\ i < Len(w)
      BY <1>1, <2>2
    <3> HIDE DEF j
    <3>. QED  BY <3>1, <3>2, <3>3 DEF Sound
  <2>. QED  BY <1>1, <2>1, <2>2
<1>3. Sound(w)
  BY <1>1, <1>2 DEF Sound
<1>. QED  BY <1>1, <1>3 DEF w

LEMMA DispatchSound ==
  /\ <<Begin>> \in Logs /\ Sound(<<Begin>>)
  /\ <<Begin, Commit>> \in Logs /\ Sound(<<Begin, Commit>>)
  /\ \A id \in Nat : <<Begin, Registered(id), Commit>> \in Logs /\ Sound(<<Begin, Registered(id), Commit>>)
<1>1. <<Begin>> \in Logs /\ <<Begin, Commit>> \in Logs
  BY Marks DEF Logs
<1>2. Sound(<<Begin>>)
  BY Marks DEF Sound
<1>3. Sound(<<Begin, Commit>>)
  BY Marks DEF Sound
<1>4. ASSUME NEW id \in Nat
      PROVE  <<Begin, Registered(id), Commit>> \in Logs /\ Sound(<<Begin, Registered(id), Commit>>)
  <2> DEFINE x == Registered(id)
  <2>1. x \in LogEntry /\ x # Commit /\ x # Begin
    BY Marks
  <2> HIDE DEF x
  <2>2. <<Begin, x, Commit>> \in Logs
    BY <2>1, Marks DEF Logs
  <2>3. Sound(<<Begin, x, Commit>>)
    BY <2>1, Marks DEF Sound
  <2>. QED  BY <2>2, <2>3 DEF x
<1>. QED  BY <1>1, <1>2, <1>3, <1>4

-----------------------------------------------------------------------------
Counts(mark) == [u \in DOMAIN entries |-> Count(entries[u], mark)]

(* The log of the context's unit, new or not.                              *)
LogOf(c) == IF unit[c] = 0 THEN <<>> ELSE entries[unit[c]]

LEMMA WriteIs ==
  ASSUME ScopeTypes, NEW c \in Contexts, NEW log \in Logs, Write(c, log)
  PROVE  /\ LogOf(c) \in Logs /\ UnitFor(c) \in Nat
         /\ DOMAIN entries' = DOMAIN entries \cup {UnitFor(c)} /\ IsFiniteSet(DOMAIN entries)
         /\ entries' \in Seq(Logs) /\ unit' \in [Contexts -> 0 .. Len(entries')]
         /\ entries'[UnitFor(c)] = LogOf(c) \o log
         /\ UnitFor(c) \in DOMAIN entries => LogOf(c) = entries[UnitFor(c)]
         /\ UnitFor(c) \notin DOMAIN entries => LogOf(c) = <<>>
         /\ \A u \in DOMAIN entries \ {UnitFor(c)} : entries'[u] = entries[u]
<1> DEFINE n == Len(entries)
           u == UnitFor(c)
<1>1. /\ n \in Nat /\ DOMAIN entries = 1 .. n /\ unit[c] \in 0 .. n /\ IsFiniteSet(1 .. n)
      /\ \A i \in 1 .. n : entries[i] \in Logs
  <2>1. /\ n \in Nat /\ DOMAIN entries = 1 .. n /\ unit[c] \in 0 .. n
        /\ \A i \in 1 .. n : entries[i] \in Logs
    BY DEF ScopeTypes
  <2> HIDE DEF n
  <2>. QED  BY <2>1, FS_Interval
<1>2. /\ unit' = [unit EXCEPT ![c] = u]
      /\ entries' = IF unit[c] = 0 THEN Append(entries, log) ELSE [entries EXCEPT ![unit[c]] = @ \o log]
  BY DEF Write
<1>3. CASE unit[c] = 0
  <2>1. u = n + 1 /\ LogOf(c) = <<>> /\ entries' = Append(entries, log)
    BY <1>2, <1>3 DEF UnitFor, LogOf
  <2>2. /\ entries' \in Seq(Logs) /\ Len(entries') = n + 1 /\ entries'[n + 1] = log
        /\ \A i \in 1 .. n : entries'[i] = entries[i]
    BY <1>1, <2>1, AppendProperties DEF ScopeTypes
  <2>3. <<>> \o log = log /\ <<>> \in Logs
    BY ConcatEmptySeq DEF Logs
  <2>4. DOMAIN entries' = 1 .. n + 1
    BY <2>2
  <2>5. DOMAIN entries' = DOMAIN entries \cup {u}
    <3> HIDE DEF n, u
    <3>. QED BY <1>1, <2>1, <2>4
  <2>6. unit' \in [Contexts -> 0 .. Len(entries')]
    <3>1. \A d \in Contexts : unit'[d] = IF d = c THEN u ELSE unit[d]
      BY <1>2 DEF ScopeTypes
    <3>2. unit' = [d \in Contexts |-> unit'[d]]
      BY <1>2 DEF ScopeTypes
    <3>3. \A d \in Contexts : unit[d] \in 0 .. n
      BY DEF ScopeTypes
    <3> HIDE DEF u, n
    <3>4. \A d \in Contexts : unit'[d] \in 0 .. n + 1
      BY <1>1, <2>1, <3>1, <3>3
    <3>. QED  BY <2>2, <3>2, <3>4
  <2>. QED  BY <1>1, <2>1, <2>2, <2>3, <2>5, <2>6
<1>4. CASE unit[c] # 0
  <2>1. u = unit[c] /\ u \in 1 .. n /\ LogOf(c) = entries[u] /\ entries' = [entries EXCEPT ![u] = @ \o log]
    BY <1>1, <1>2, <1>4 DEF UnitFor, LogOf
  <2> HIDE DEF u
  <2>2. entries[u] \o log \in Logs
    <3>1. entries[u] \in Logs
      BY <1>1, <2>1
    <3> DEFINE s == entries[u]
    <3> HIDE DEF s
    <3>2. s \o log \in Logs
      BY <3>1, ConcatProperties DEF Logs, s
    <3>. QED  BY <3>2 DEF s
  <2>3. /\ entries' \in Seq(Logs) /\ Len(entries') = n /\ DOMAIN entries' = 1 .. n
        /\ entries'[u] = entries[u] \o log
        /\ \A i \in 1 .. n \ {u} : entries'[i] = entries[i]
    <3>1. entries \in Seq(Logs)
      BY DEF ScopeTypes
    <3>2. u \in 1 .. Len(entries)
      BY <2>1
    <3>3. entries' = [entries EXCEPT ![u] = entries[u] \o log]
      BY <2>1
    <3> DEFINE w == entries[u] \o log
    <3> HIDE DEF w
    <3>4. [entries EXCEPT ![u] = w] \in Seq(Logs) /\ Len([entries EXCEPT ![u] = w]) = Len(entries)
      BY <2>2, <3>1, <3>2, ExceptSeq DEF w
    <3>5. DOMAIN entries' = 1 .. n /\ entries'[u] = w /\ \A i \in 1 .. n \ {u} : entries'[i] = entries[i]
      BY <1>1, <2>1, <3>3 DEF w
    <3>. QED  BY <3>3, <3>4, <3>5 DEF w
  <2>4. unit' \in [Contexts -> 0 .. Len(entries')]
    <3>1. unit' = [unit EXCEPT ![c] = u] /\ u \in 0 .. n
      BY <1>1, <1>2, <2>1 DEF u
    <3>. QED  BY <2>3, <3>1 DEF ScopeTypes
  <2>. QED  BY <1>1, <2>1, <2>3, <2>4 DEF u
<1>. QED  BY <1>3, <1>4

(* A total grows by what the dispatch adds to the one log it writes to.    *)
LEMMA TotalMoves ==
  ASSUME ScopeTypes, NEW c \in Contexts, NEW log \in Logs, Write(c, log), NEW mark, NEW d \in Int,
         \A s \in Logs : Count(s \o log, mark) = Count(s, mark) + d
  PROVE  Total(mark)' = Total(mark) + d
<1> DEFINE S == DOMAIN entries
           y == UnitFor(c)
           q == Counts(mark)
           r == Counts(mark)'
<1>1. /\ LogOf(c) \in Logs /\ IsFiniteSet(S) /\ DOMAIN entries' = S \cup {y}
      /\ entries'[y] = LogOf(c) \o log
      /\ y \in S => LogOf(c) = entries[y]
      /\ y \notin S => LogOf(c) = <<>>
      /\ \A u \in S \ {y} : entries'[u] = entries[u]
  BY WriteIs
<1>2. r = [u \in S \cup {y} |-> Count(entries'[u], mark)]
  BY <1>1 DEF Counts
<1>3. q = [u \in S |-> Count(entries[u], mark)]
  BY DEF Counts
<1>4. \A u \in S : q[u] \in Int
  <2>. SUFFICES ASSUME NEW u \in S PROVE q[u] \in Int
    OBVIOUS
  <2>1. entries[u] \in Logs
    BY DEF ScopeTypes
  <2>2. Count(entries[u], mark) \in Nat
    BY <2>1, Marks, CountAppend
  <2>. QED  BY <1>3, <2>2
<1>5. Count(LogOf(c) \o log, mark) = Count(LogOf(c), mark) + d
  BY <1>1
<1>6. r[y] = Count(LogOf(c), mark) + d
  BY <1>1, <1>2, <1>5
<1>7. Count(LogOf(c), mark) \in Int /\ Count(LogOf(c), mark) = IF y \in S THEN q[y] ELSE 0
  <2>1. Count(LogOf(c), mark) \in Int
    BY <1>1, Marks, CountAppend
  <2>2. CASE y \in S
    BY <1>1, <1>3, <2>1, <2>2
  <2>3. CASE y \notin S
    BY <1>1, <2>1, <2>3, CountNone
  <2>. QED  BY <2>2, <2>3
<1>8. \A x \in S \ {y} : r[x] = q[x]
  BY <1>1, <1>2, <1>3
<1>9. r[y] \in Int /\ (y \in S => r[y] = q[y] + d) /\ (y \notin S => r[y] = d)
  BY <1>6, <1>7
<1>10. Total(mark) = SumOver(q, S)
  <2>1. Total(mark) = SumFunction(q) /\ DOMAIN q = S
    BY DEF Total, Counts
  <2> HIDE DEF q, S
  <2>2. SumFunction(q) = SumOver(q, DOMAIN q)
    BY SumOfFunction
  <2>. QED  BY <2>1, <2>2, Zenon
<1>11. Total(mark)' = SumOver(r, S \cup {y})
  <2>1. Total(mark)' = SumFunction(r) /\ DOMAIN r = S \cup {y}
    BY <1>1 DEF Total, Counts
  <2> HIDE DEF r, S, y
  <2>2. SumFunction(r) = SumOver(r, DOMAIN r)
    BY SumOfFunction
  <2>. QED  BY <2>1, <2>2, Zenon
<1> HIDE DEF q, r, S, y
<1>12. SumOver(r, S \cup {y}) = SumOver(q, S) + d
  <2>1. IsFiniteSet(S) /\ d \in Int
    BY <1>1
  <2>2. /\ r[y] \in Int /\ (y \in S => r[y] = q[y] + d) /\ (y \notin S => r[y] = d)
        /\ (\A x \in S \ {y} : r[x] = q[x]) /\ (\A x \in S : q[x] \in Int)
    BY <1>4, <1>8, <1>9
  <2>3. SumOver(r, S \cup {y}) = SumOver(q, S) + d /\ SumOver(q, S) \in Int
    BY <2>1, <2>2, SumMoves, Zenon
  <2>. QED  BY <2>3
<1>. QED  BY <1>10, <1>11, <1>12, Zenon

-----------------------------------------------------------------------------
LEMMA InitScopes == ScopesInit => ScopesInv
<1>. SUFFICES ASSUME ScopesInit PROVE ScopesInv
  OBVIOUS
<1>1. entries = <<>> /\ <<>> \in Seq(Logs) /\ DOMAIN entries = {} /\ Len(entries) = 0
  BY DEF ScopesInit
<1>2. ScopeTypes
  BY <1>1, ScopesAssumption DEF ScopesInit, ScopeTypes
<1>3. ASSUME NEW mark PROVE Total(mark) = 0
  <2>1. Total(mark) = SumFunction(Counts(mark)) /\ DOMAIN Counts(mark) = {}
    BY <1>1 DEF Total, Counts
  <2>2. SumFunction(Counts(mark)) = SumOver(Counts(mark), {})
    BY <2>1, SumOfFunction
  <2>3. SumOver(Counts(mark), {}) = 0
    BY SumEmpty
  <2>. QED  BY <2>1, <2>2, <2>3, Zenon
<1>4. Accounts
  BY <1>3 DEF Accounts, ScopesInit
<1>. QED  BY <1>1, <1>2, <1>4 DEF ScopesInv

(* A dispatch that logs what it should, once, keeps the accounts.          *)
LEMMA DispatchHolds ==
  ASSUME ScopesInv, NEW c \in Contexts, NEW log \in Logs, Sound(log), Write(c, log),
         NEW kind \in {"registered", "found", "missed"}, Dispatch(c, kind),
         users' = users + IF kind = "registered" THEN 1 ELSE 0,
         \A s \in Logs : Count(s \o log, Begin) = Count(s, Begin) + 1,
         \A s \in Logs : Count(s \o log, Commit) = Count(s, Commit) + IF kind = "missed" THEN 0 ELSE 1,
         \A id \in Nat : \A s \in Logs :
           Count(s \o log, Registered(id)) =
             Count(s, Registered(id)) + IF kind = "registered" /\ id = users + 1 THEN 1 ELSE 0
  PROVE  ScopesInv'
<1>1. ScopeTypes /\ Accounts /\ \A u \in DOMAIN entries : Sound(entries[u])
  BY DEF ScopesInv
<1>2. /\ users' \in Nat
      /\ tally' \in [registered : Nat, found : Nat, missed : Nat]
      /\ tally'.registered = tally.registered + IF kind = "registered" THEN 1 ELSE 0
      /\ tally'.found = tally.found + IF kind = "found" THEN 1 ELSE 0
      /\ tally'.missed = tally.missed + IF kind = "missed" THEN 1 ELSE 0
  <2>0. users' \in Nat
    BY <1>1 DEF ScopeTypes
  <2>1. /\ tally.registered \in Nat /\ tally.found \in Nat /\ tally.missed \in Nat
        /\ tally = [registered |-> tally.registered, found |-> tally.found, missed |-> tally.missed]
    BY <1>1 DEF ScopeTypes
  <2>2. CASE kind = "registered"
    <3>1. tally' = [tally EXCEPT !["registered"] = tally.registered + 1]
      BY <2>2 DEF Dispatch
    <3>2. tally' = [registered |-> tally.registered + 1, found |-> tally.found, missed |-> tally.missed]
      BY <2>1, <3>1
    <3>. QED  BY <2>0, <2>1, <2>2, <3>2
  <2>3. CASE kind = "found"
    <3>1. tally' = [tally EXCEPT !["found"] = tally.found + 1]
      BY <2>3 DEF Dispatch
    <3>2. tally' = [registered |-> tally.registered, found |-> tally.found + 1, missed |-> tally.missed]
      BY <2>1, <3>1
    <3>. QED  BY <2>0, <2>1, <2>3, <3>2
  <2>4. CASE kind = "missed"
    <3>1. tally' = [tally EXCEPT !["missed"] = tally.missed + 1]
      BY <2>4 DEF Dispatch
    <3>2. tally' = [registered |-> tally.registered, found |-> tally.found, missed |-> tally.missed + 1]
      BY <2>1, <3>1
    <3>. QED  BY <2>0, <2>1, <2>4, <3>2
  <2>. QED  BY <2>2, <2>3, <2>4
<1>3. /\ tally.registered \in Nat /\ tally.found \in Nat /\ tally.missed \in Nat
      /\ users = tally.registered /\ MaxDispatch \in Nat
      /\ tally.registered + tally.found + tally.missed < MaxDispatch
  BY <1>1, ScopesAssumption DEF ScopeTypes, Dispatch
<1>4. /\ entries' \in Seq(Logs) /\ unit' \in [Contexts -> 0 .. Len(entries')]
      /\ LogOf(c) \in Logs /\ DOMAIN entries' = DOMAIN entries \cup {UnitFor(c)}
      /\ entries'[UnitFor(c)] = LogOf(c) \o log
      /\ UnitFor(c) \in DOMAIN entries => LogOf(c) = entries[UnitFor(c)]
      /\ UnitFor(c) \notin DOMAIN entries => LogOf(c) = <<>>
      /\ \A u \in DOMAIN entries \ {UnitFor(c)} : entries'[u] = entries[u]
  BY <1>1, WriteIs
<1>5. ScopeTypes'
  <2>1. users' = tally'.registered
    BY <1>2, <1>3
  <2>2. tally'.registered + tally'.found + tally'.missed <= MaxDispatch
    BY <1>2, <1>3
  <2>3. Root \in alive'
    BY <1>1 DEF ScopeTypes, Dispatch
  <2>. QED  BY <1>2, <1>4, <2>1, <2>2, <2>3 DEF ScopeTypes
<1>6. \A u \in DOMAIN entries' : Sound(entries'[u])
  <2>1. Sound(LogOf(c))
    <3>1. CASE UnitFor(c) \in DOMAIN entries
      BY <1>1, <1>4, <3>1
    <3>2. CASE UnitFor(c) \notin DOMAIN entries
      BY <1>4, <3>2 DEF Sound
    <3>. QED  BY <3>1, <3>2
  <2>2. Sound(LogOf(c) \o log)
    BY <1>4, <2>1, SoundConcat
  <2>3. Sound(entries'[UnitFor(c)])
    BY <1>4, <2>2
  <2>. QED  BY <1>1, <1>4, <2>3
<1>7. Total(Begin)' = Total(Begin) + 1
  BY <1>1, Marks, TotalMoves
<1>8. Total(Commit)' = Total(Commit) + IF kind = "missed" THEN 0 ELSE 1
  <2> DEFINE d == IF kind = "missed" THEN 0 ELSE 1
  <2>1. d \in Int /\ \A s \in Logs : Count(s \o log, Commit) = Count(s, Commit) + d
    OBVIOUS
  <2> HIDE DEF d
  <2>2. Total(Commit)' = Total(Commit) + d
    BY <1>1, <2>1, TotalMoves
  <2>. QED  BY <2>2 DEF d
<1>9. ASSUME NEW id \in Nat
      PROVE  Total(Registered(id))' =
               Total(Registered(id)) + IF kind = "registered" /\ id = users + 1 THEN 1 ELSE 0
  <2> DEFINE d == IF kind = "registered" /\ id = users + 1 THEN 1 ELSE 0
             m == Registered(id)
  <2>1. d \in Int /\ \A s \in Logs : Count(s \o log, m) = Count(s, m) + d
    OBVIOUS
  <2> HIDE DEF d, m
  <2>2. Total(m)' = Total(m) + d
    BY <1>1, <2>1, TotalMoves
  <2>. QED  BY <2>2 DEF d, m
<1>10. Accounts'
  <2>1. /\ Total(Begin) = tally.registered + tally.found + tally.missed
        /\ Total(Commit) = tally.registered + tally.found
        /\ \A id \in Nat : id > 0 => Total(Registered(id)) = IF id <= users THEN 1 ELSE 0
    BY <1>1 DEF Accounts
  <2>2. Total(Begin)' = tally'.registered + tally'.found + tally'.missed
    BY <1>2, <1>3, <1>7, <2>1
  <2>3. Total(Commit)' = tally'.registered + tally'.found
    BY <1>2, <1>3, <1>8, <2>1
  <2>4. ASSUME NEW id \in Nat, id > 0
        PROVE  Total(Registered(id))' = IF id <= users' THEN 1 ELSE 0
    <3>1. Total(Registered(id)) = IF id <= users THEN 1 ELSE 0
      BY <2>1, <2>4
    <3> DEFINE a == Total(Registered(id))
               b == Total(Registered(id))'
    <3>2. a = (IF id <= users THEN 1 ELSE 0)
          /\ b = a + IF kind = "registered" /\ id = users + 1 THEN 1 ELSE 0
      BY <1>9, <3>1
    <3> HIDE DEF a, b
    <3>3. b = IF id <= users' THEN 1 ELSE 0
      BY <1>3, <3>2
    <3>. QED  BY <3>3 DEF b
  <2>. QED  BY <2>2, <2>3, <2>4 DEF Accounts
<1>. QED  BY <1>5, <1>6, <1>10 DEF ScopesInv

LEMMA CountOne ==
  ASSUME NEW s \in Logs, NEW mark, NEW x \in LogEntry
  PROVE  Count(s \o <<x>>, mark) = Count(s, mark) + IF x = mark THEN 1 ELSE 0
<1>1. s \o <<x>> = Append(s, x)
  BY ConcatAppends
<1>2. Count(Append(s, x), mark) = Count(s, mark) + IF x = mark THEN 1 ELSE 0
  BY CountAppend
<1>. QED  BY <1>1, <1>2, Zenon

LEMMA CountTwo ==
  ASSUME NEW s \in Logs, NEW mark, NEW x \in LogEntry, NEW y \in LogEntry
  PROVE  Count(s \o <<x, y>>, mark) =
           Count(s, mark) + (IF x = mark THEN 1 ELSE 0) + IF y = mark THEN 1 ELSE 0
<1> DEFINE a == Append(s, x)
<1>1. a \in Logs /\ Count(a, mark) = Count(s, mark) + IF x = mark THEN 1 ELSE 0
  BY CountAppend
<1>2. s \o <<x, y>> = Append(a, y)
  BY ConcatAppends
<1> HIDE DEF a
<1>3. Count(Append(a, y), mark) = Count(a, mark) + IF y = mark THEN 1 ELSE 0
  BY <1>1, CountAppend
<1>. QED  BY <1>1, <1>2, <1>3

LEMMA CountThree ==
  ASSUME NEW s \in Logs, NEW mark, NEW x \in LogEntry, NEW y \in LogEntry, NEW z \in LogEntry
  PROVE  Count(s \o <<x, y, z>>, mark) =
           Count(s, mark) + (IF x = mark THEN 1 ELSE 0) + (IF y = mark THEN 1 ELSE 0)
             + IF z = mark THEN 1 ELSE 0
<1> DEFINE a == Append(Append(s, x), y)
<1>1. a \in Logs /\ s \o <<x, y>> = a
  BY CountAppend, ConcatAppends
<1>2. s \o <<x, y, z>> = Append(a, z)
  BY ConcatAppends
<1> HIDE DEF a
<1>3. Count(Append(a, z), mark) = Count(a, mark) + IF z = mark THEN 1 ELSE 0
  BY <1>1, CountAppend
<1>4. Count(s \o <<x, y>>, mark) =
        Count(s, mark) + (IF x = mark THEN 1 ELSE 0) + IF y = mark THEN 1 ELSE 0
  BY CountTwo
<1>5. Count(s \o <<x, y, z>>, mark) = Count(s \o <<x, y>>, mark) + IF z = mark THEN 1 ELSE 0
  BY <1>1, <1>2, <1>3, Zenon
<1>. QED  BY <1>4, <1>5, Zenon

LEMMA NextScopes == ScopesInv /\ [ScopesNext]_scopesVars => ScopesInv'
<1>. SUFFICES ASSUME ScopesInv, [ScopesNext]_scopesVars PROVE ScopesInv'
  OBVIOUS
<1>1. ASSUME UNCHANGED <<entries, users, tally>>, Root \in alive',
             unit' \in [Contexts -> 0 .. Len(entries)]
      PROVE  ScopesInv'
  <2>1. ASSUME NEW mark PROVE Total(mark)' = Total(mark)
    BY <1>1 DEF Total
  <2>. QED  BY <1>1, <2>1 DEF ScopesInv, ScopeTypes, Accounts
<1>2. CASE UNCHANGED scopesVars
  BY <1>1, <1>2 DEF scopesVars, ScopesInv, ScopeTypes
<1>3. ASSUME NEW c \in Contexts, Spawn(c) PROVE ScopesInv'
  BY <1>1, <1>3, ScopesAssumption DEF Spawn, ScopesInv, ScopeTypes
<1>4. ASSUME NEW c \in Contexts, ResetUnit(c) PROVE ScopesInv'
  BY <1>1, <1>4 DEF ResetUnit, ScopesInv, ScopeTypes
<1>5. ASSUME NEW c \in Contexts, RegisterUser(c) PROVE ScopesInv'
  <2> DEFINE n == users + 1
             log == <<Begin, Registered(n), Commit>>
  <2>1. n \in Nat
    BY DEF ScopesInv, ScopeTypes
  <2>2. log \in Logs /\ Sound(log)
    BY <2>1, DispatchSound
  <2>3. /\ Begin \in LogEntry /\ Commit \in LogEntry /\ Registered(n) \in LogEntry
        /\ Begin # Commit /\ Registered(n) # Begin /\ Registered(n) # Commit
        /\ \A id \in Nat : /\ Registered(id) # Begin /\ Registered(id) # Commit
                           /\ Registered(n) = Registered(id) <=> id = n
    BY <2>1, Marks
  <2>4. ASSUME NEW s \in Logs, NEW mark
        PROVE  /\ Count(s, mark) \in Nat
               /\ Count(s \o log, mark) =
                    Count(s, mark) + (IF Begin = mark THEN 1 ELSE 0)
                      + (IF Registered(n) = mark THEN 1 ELSE 0) + IF Commit = mark THEN 1 ELSE 0
    <3>1. Count(s, mark) \in Nat
      BY <2>3, CountAppend
    <3>. QED  BY <2>3, <3>1, CountThree
  <2>5. Write(c, log) /\ Dispatch(c, "registered") /\ users' = users + 1
    BY <1>5 DEF RegisterUser
  <2> HIDE DEF n, log
  <2>6. /\ \A s \in Logs : Count(s \o log, Begin) = Count(s, Begin) + 1
        /\ \A s \in Logs : Count(s \o log, Commit) = Count(s, Commit) + 1
        /\ \A id \in Nat : \A s \in Logs :
             Count(s \o log, Registered(id)) = Count(s, Registered(id)) + IF id = n THEN 1 ELSE 0
    BY <2>3, <2>4
  <2>. QED  BY <2>2, <2>5, <2>6, DispatchHolds DEF n
<1>6. ASSUME NEW c \in Contexts, NEW id \in 1 .. MaxDispatch, GetUser(c, id) PROVE ScopesInv'
  <2> DEFINE log == <<Begin, Commit>>
  <2>1. log \in Logs /\ Sound(log)
    BY DispatchSound
  <2>2. /\ Begin \in LogEntry /\ Commit \in LogEntry /\ Begin # Commit
        /\ \A i \in Nat : Registered(i) # Begin /\ Registered(i) # Commit
    BY Marks
  <2>3. ASSUME NEW s \in Logs, NEW mark
        PROVE  /\ Count(s, mark) \in Nat
               /\ Count(s \o log, mark) =
                    Count(s, mark) + (IF Begin = mark THEN 1 ELSE 0) + IF Commit = mark THEN 1 ELSE 0
    <3>1. Count(s, mark) \in Nat
      BY <2>2, CountAppend
    <3>. QED  BY <2>2, <3>1, CountTwo
  <2>4. Write(c, log) /\ Dispatch(c, "found") /\ users' = users /\ users \in Nat
    BY <1>6 DEF GetUser, ScopesInv, ScopeTypes
  <2> HIDE DEF log
  <2>5. /\ \A s \in Logs : Count(s \o log, Begin) = Count(s, Begin) + 1
        /\ \A s \in Logs : Count(s \o log, Commit) = Count(s, Commit) + 1
        /\ \A i \in Nat : \A s \in Logs : Count(s \o log, Registered(i)) = Count(s, Registered(i)) + 0
    BY <2>2, <2>3
  <2>. QED  BY <2>1, <2>4, <2>5, DispatchHolds
<1>7. ASSUME NEW c \in Contexts, GetMissingUser(c) PROVE ScopesInv'
  <2> DEFINE log == <<Begin>>
  <2>1. log \in Logs /\ Sound(log)
    BY DispatchSound
  <2>2. /\ Begin \in LogEntry /\ Commit \in LogEntry /\ Begin # Commit
        /\ \A i \in Nat : Registered(i) # Begin /\ Registered(i) # Commit
    BY Marks
  <2>3. ASSUME NEW s \in Logs, NEW mark
        PROVE  /\ Count(s, mark) \in Nat
               /\ Count(s \o log, mark) = Count(s, mark) + IF Begin = mark THEN 1 ELSE 0
    <3>1. Count(s, mark) \in Nat
      BY <2>2, CountAppend
    <3>. QED  BY <2>2, <3>1, CountOne
  <2>4. Write(c, log) /\ Dispatch(c, "missed") /\ users' = users /\ users \in Nat
    BY <1>7 DEF GetMissingUser, ScopesInv, ScopeTypes
  <2> HIDE DEF log
  <2>5. /\ \A s \in Logs : Count(s \o log, Begin) = Count(s, Begin) + 1
        /\ \A s \in Logs : Count(s \o log, Commit) = Count(s, Commit) + 0
        /\ \A i \in Nat : \A s \in Logs : Count(s \o log, Registered(i)) = Count(s, Registered(i)) + 0
    BY <2>2, <2>3
  <2>. QED  BY <2>1, <2>4, <2>5, DispatchHolds
<1>. QED  BY <1>2, <1>3, <1>4, <1>5, <1>6, <1>7 DEF ScopesNext

LEMMA AlwaysScopesInv == ScopesSpec => []ScopesInv
  BY InitScopes, NextScopes, PTL DEF ScopesSpec

LEMMA LogsFollow == ScopesInv => WritesAreBracketed /\ LogsAccountForDispatches
<1>. SUFFICES ASSUME ScopesInv PROVE WritesAreBracketed /\ LogsAccountForDispatches
  OBVIOUS
<1>1. WritesAreBracketed
  BY DEF ScopesInv, Sound, WritesAreBracketed
<1>2. ASSUME NEW id \in 1 .. users PROVE Total(Registered(id)) = 1
  BY DEF ScopesInv, ScopeTypes, Accounts
<1>. QED  BY <1>1, <1>2 DEF ScopesInv, Accounts, LogsAccountForDispatches

LEMMA ScopesTypesFollow == ScopesInv => ScopesTypeOK
  BY ScopesAssumption DEF ScopesInv, ScopeTypes, ScopesTypeOK

-----------------------------------------------------------------------------
(* OrderDesk.                                                              *)
OrderStates == {"placed", "cancelled", "refunded"}
CallStates ==
  {"idle", "awaiting", "ok", "cancelled", "ValueError", "OutOfStock", "OrderNotFound"}

DeskTypes ==
  /\ desk \in {"before", "after"}
  /\ orders \in Seq(OrderStates) /\ effects \in Seq(Operations) /\ trail \in Seq(Operations)
  /\ refunds \in Seq(Nat)
  /\ state \in [Operations -> CallStates]

(* What took effect is what returned, and touched orders that are there.   *)
EffectsHold ==
  /\ \A o \in Operations : state[o] = "ok" <=> o \in ToSet(effects)
  /\ \A o \in ToSet(effects) : Action[o] \in {"cancel", "refund"} => OrderNo[o] \in 1 .. Len(orders)

(* How often the service has recorded an operation says whether it has     *)
(* started.                                                                *)
Records(o) ==
  IF state[o] \in {"idle", "ValueError"} \/ Action[o] = "refund" THEN 0 ELSE 1
TrailHolds ==
  /\ desk = "after" => trail = effects
  /\ desk = "before" => /\ \A o \in Operations : Len(Selected(trail, {o})) = Records(o)
                        /\ \A o \in ToSet(trail) : Action[o] # "refund"

DeskInv == DeskTypes /\ EffectsHold /\ TrailHolds /\ BooksBalance

-----------------------------------------------------------------------------
LEMMA InitDesk == DeskInit => DeskInv
<1>. SUFFICES ASSUME DeskInit PROVE DeskInv
  OBVIOUS
<1>1. DeskTypes
  BY DEF DeskInit, DeskTypes, CallStates
<1>2. EffectsHold
  BY ToSetEmpty DEF DeskInit, EffectsHold
<1>3. TrailHolds
  BY ToSetEmpty, SelectedEmpty DEF DeskInit, TrailHolds, Records
<1>4. BooksBalance
  BY ToSetEmpty DEF DeskInit, BooksBalance
<1>. QED  BY <1>1, <1>2, <1>3, <1>4 DEF DeskInv

(* The status of every order, from the operations on it.                   *)
StatusOf(i, past) ==
  IF Selected(past, Touching(i)) = <<>> THEN "placed"
  ELSE IF Action[Last(Selected(past, Touching(i)))] = "cancel" THEN "cancelled" ELSE "refunded"

LEMMA StatusNext ==
  ASSUME NEW past \in Seq(Operations), NEW o \in Operations, NEW i
  PROVE  StatusOf(i, Append(past, o)) =
           IF o \in Touching(i) THEN IF Action[o] = "cancel" THEN "cancelled" ELSE "refunded"
           ELSE StatusOf(i, past)
<1>1. Selected(past, Touching(i)) \in Seq(Operations)
  <2>1. Operations \cap Touching(i) \subseteq Operations
    OBVIOUS
  <2>. QED  BY <2>1, SelectedType, SeqMonotonic
<1>2. Selected(Append(past, o), Touching(i)) =
        IF o \in Touching(i) THEN Append(Selected(past, Touching(i)), o) ELSE Selected(past, Touching(i))
  BY SelectedAppend
<1>3. CASE o \in Touching(i)
  <2>1. Last(Append(Selected(past, Touching(i)), o)) = o /\ Append(Selected(past, Touching(i)), o) # <<>>
    BY <1>1, LastOfAppend
  <2>. QED  BY <1>2, <1>3, <2>1 DEF StatusOf
<1>4. CASE o \notin Touching(i)
  BY <1>2, <1>4 DEF StatusOf
<1>. QED  BY <1>3, <1>4

(* Nobody has touched an order that is not there.                          *)
LEMMA Untouched ==
  ASSUME DeskTypes, EffectsHold, NEW i \in Nat, i > Len(orders)
  PROVE  StatusOf(i, effects) = "placed"
<1>1. PICK f : Keeps(f, effects, Touching(i)) /\ Selected(effects, Touching(i)) = f[Len(effects)]
  BY SelectedKeeps DEF DeskTypes
<1>2. \A k \in 1 .. Len(effects) : effects[k] \notin Touching(i)
  <2>. SUFFICES ASSUME NEW k \in 1 .. Len(effects), effects[k] \in Touching(i) PROVE FALSE
    OBVIOUS
  <2>1. effects[k] \in ToSet(effects)
    BY DEF ToSet, DeskTypes
  <2>. QED  BY <2>1 DEF EffectsHold, Touching, DeskTypes
<1>3. Selected(effects, Touching(i)) = Selected(effects, {})
  BY <1>2, SelectedSame DEF DeskTypes
<1>4. Selected(effects, {}) = <<>>
  <2>1. Selected(effects, {}) \in Seq(Operations \cap {})
    BY SelectedType DEF DeskTypes
  <2>2. Operations \cap {} = {}
    OBVIOUS
  <2>3. Selected(effects, {}) \in Seq({})
    BY <2>1, <2>2, Zenon
  <2>. QED  BY <2>3
<1>. QED  BY <1>3, <1>4 DEF StatusOf

(* What every end of an operation does to the records.                     *)
LEMMA EndHolds ==
  ASSUME DeskInv, NEW o \in Operations, NEW outcome \in {"ok", "cancelled", "OutOfStock", "OrderNotFound"},
         Ends(o, outcome), orders' \in Seq(OrderStates), refunds' \in Seq(Nat), Len(orders) <= Len(orders'),
         outcome = "ok" /\ Action[o] \in {"cancel", "refund"} => OrderNo[o] \in 1 .. Len(orders)
  PROVE  DeskTypes' /\ EffectsHold' /\ TrailHolds'
<1>1. /\ state[o] = "awaiting" /\ state' = [state EXCEPT ![o] = outcome] /\ UNCHANGED desk
      /\ DeskTypes /\ EffectsHold /\ TrailHolds /\ desk \in {"before", "after"}
      /\ effects \in Seq(Operations) /\ trail \in Seq(Operations)
      /\ Len(orders) \in Nat /\ Len(orders') \in Nat
  BY DEF Ends, DeskInv, DeskTypes
<1>2. effects' \in Seq(Operations)
      /\ ToSet(effects') = IF outcome = "ok" THEN ToSet(effects) \cup {o} ELSE ToSet(effects)
  <2>1. ToSet(Append(effects, o)) = ToSet(effects) \cup {o} /\ Append(effects, o) \in Seq(Operations)
    BY <1>1, ToSetAppend
  <2>. QED  BY <1>1,   <2>1 DEF Ends
<1>3. desk = "before" => trail' = trail
  BY <1>1 DEF Ends, RecordAtEnd
<1>4. desk = "after" => trail' = effects'
  BY <1>1 DEF Ends, RecordAtEnd, TrailHolds
<1>5. state' \in [Operations -> CallStates] /\ state'[o] = outcome
      /\ \A p \in Operations \ {o} : state'[p] = state[p]
  BY <1>1 DEF DeskTypes, CallStates
<1>6. DeskTypes'
  BY <1>1, <1>2, <1>3, <1>4, <1>5 DEF DeskTypes
<1>7. EffectsHold'
  <2>1. \A p \in Operations : state'[p] = "ok" <=> p \in ToSet(effects')
    BY <1>1, <1>2, <1>5 DEF EffectsHold
  <2>2. \A p \in ToSet(effects') : Action[p] \in {"cancel", "refund"} => OrderNo[p] \in 1 .. Len(orders')
    BY <1>1, <1>2 DEF EffectsHold
  <2>. QED  BY <2>1, <2>2 DEF EffectsHold
<1>8. TrailHolds'
  <2>1. \A p \in Operations : Records(p)' = Records(p)
    BY <1>1, <1>5 DEF Records
  <2>. QED  BY <1>1, <1>3, <1>4, <2>1 DEF TrailHolds
<1>. QED  BY <1>6, <1>7, <1>8

LEMMA Balanced ==
  BooksBalance <=>
    /\ charges = [i \in 1 .. Len(orders) |-> i] /\ sent = charges
    /\ ToSet(refunds) \subseteq ToSet(charges)
    /\ \A i \in DOMAIN orders : orders[i] = StatusOf(i, effects)
  BY DEF BooksBalance, StatusOf

LEMMA BalancedNext ==
  BooksBalance' <=>
    /\ charges' = [i \in 1 .. Len(orders') |-> i] /\ sent' = charges'
    /\ ToSet(refunds') \subseteq ToSet(charges')
    /\ \A i \in DOMAIN orders' : orders'[i] = StatusOf(i, effects')
  BY DEF BooksBalance, StatusOf, Touching

LEMMA StartStep ==
  ASSUME DeskInv, NEW o \in Operations, Start(o) \/ UnknownAction(o)
  PROVE  DeskInv'
<1>1. /\ state[o] = "idle" /\ UNCHANGED <<desk, inStock, orders, charges, refunds, sent, effects>>
      /\ DeskTypes /\ EffectsHold /\ TrailHolds /\ desk \in {"before", "after"}
      /\ effects \in Seq(Operations) /\ trail \in Seq(Operations)
  BY DEF Start, UnknownAction, books, DeskInv, DeskTypes
<1>2. BooksBalance'
  BY <1>1 DEF DeskInv, BooksBalance, Touching
<1>3. \/ /\ state' = [state EXCEPT ![o] = "awaiting"]
         /\ trail' = IF desk = "before" /\ Action[o] # "refund" THEN Append(trail, o) ELSE trail
      \/ state' = [state EXCEPT ![o] = "ValueError"] /\ trail' = trail
  BY DEF Start, UnknownAction, RecordAtStart
<1>4. /\ state' \in [Operations -> CallStates] /\ state'[o] \in {"awaiting", "ValueError"}
      /\ \A p \in Operations \ {o} : state'[p] = state[p]
  BY <1>1, <1>3 DEF DeskTypes, CallStates
<1>5. DeskTypes'
  <2>1. Append(trail, o) \in Seq(Operations)
    BY <1>1, ToSetAppend
  <2>. QED  BY <1>1, <1>3, <1>4, <2>1 DEF DeskTypes
<1>6. EffectsHold'
  BY <1>1, <1>4 DEF EffectsHold
<1>7. CASE desk = "after"
  BY <1>1, <1>2, <1>3, <1>5, <1>6, <1>7 DEF TrailHolds, DeskInv
<1>8. CASE desk = "before"
  <2>1. CASE trail' = Append(trail, o) /\ Action[o] # "refund" /\ state'[o] = "awaiting"
    <3>1. \A p \in Operations : Len(Selected(trail', {p})) = Records(p)'
      <4>. SUFFICES ASSUME NEW p \in Operations PROVE Len(Selected(trail', {p})) = Records(p)'
        OBVIOUS
      <4>1. Len(Selected(trail, {p})) = Records(p)
        BY <1>1, <1>8 DEF TrailHolds
      <4>2. Selected(trail', {p}) = IF o \in {p} THEN Append(Selected(trail, {p}), o) ELSE Selected(trail, {p})
        BY <1>1, <2>1, SelectedAppend
      <4>3. CASE p = o
        <5>1. Selected(trail, {p}) \in Seq(Operations \cap {p})
          BY <1>1, SelectedType
        <5>2. Len(Append(Selected(trail, {p}), o)) = Len(Selected(trail, {p})) + 1
          BY <4>3, <5>1, AppendProperties
        <5>. QED  BY <1>1, <2>1, <4>1, <4>2, <4>3, <5>2 DEF Records
      <4>4. CASE p # o
        <5>1. Records(p)' = Records(p)
          BY <1>4, <4>4 DEF Records
        <5>. QED  BY <4>1, <4>2, <4>4, <5>1
      <4>. QED  BY <4>3, <4>4
    <3>2. \A p \in ToSet(trail') : Action[p] # "refund"
      BY <1>1, <1>8, <2>1, ToSetAppend DEF TrailHolds
    <3>3. TrailHolds'
      BY <1>1, <1>8, <3>1, <3>2 DEF TrailHolds
    <3>. QED  BY <1>2, <1>5, <1>6, <3>3 DEF DeskInv
  <2>2. CASE trail' = trail /\ (Action[o] = "refund" \/ state'[o] = "ValueError")
    <3>1. \A p \in Operations : Records(p)' = Records(p)
      BY <1>1, <1>4, <2>2 DEF Records
    <3>2. TrailHolds'
      BY <1>1, <1>8, <2>2, <3>1 DEF TrailHolds
    <3>. QED  BY <1>2, <1>5, <1>6, <3>2 DEF DeskInv
  <2>3. state[o] = "idle" /\ (state'[o] = "ValueError" \/ state'[o] = "awaiting")
    BY <1>1, <1>4
  <2>4. \/ /\ state'[o] = "awaiting"
           /\ trail' = IF Action[o] # "refund" THEN Append(trail, o) ELSE trail
        \/ state'[o] = "ValueError" /\ trail' = trail
    BY <1>1, <1>3, <1>8 DEF DeskTypes
  <2>. QED  BY <2>1, <2>2, <2>4
<1>. QED  BY <1>1, <1>7, <1>8

(* An end that changes no order and takes no effect on one.                *)
LEMMA QuietEnd ==
  ASSUME DeskInv, NEW o \in Operations, NEW outcome \in {"ok", "cancelled", "OutOfStock", "OrderNotFound"},
         Ends(o, outcome), outcome = "ok" => Action[o] = "export",
         UNCHANGED <<orders, charges, refunds, sent>>
  PROVE  DeskInv'
<1>1. DeskTypes /\ orders' \in Seq(OrderStates) /\ refunds' \in Seq(Nat) /\ Len(orders) <= Len(orders')
      /\ effects \in Seq(Operations)
  BY DEF DeskInv, DeskTypes
<1>2. DeskTypes' /\ EffectsHold' /\ TrailHolds'
  BY <1>1, EndHolds
<1>3. \A i \in DOMAIN orders : StatusOf(i, effects') = StatusOf(i, effects)
  <2>. SUFFICES ASSUME NEW i \in DOMAIN orders PROVE StatusOf(i, effects') = StatusOf(i, effects)
    OBVIOUS
  <2>1. CASE outcome = "ok"
    <3>1. effects' = Append(effects, o) /\ o \notin Touching(i)
      BY <2>1 DEF Ends, Touching
    <3>. QED  BY <1>1, <3>1, StatusNext
  <2>2. CASE outcome # "ok"
    BY <2>2 DEF Ends
  <2>. QED  BY <2>1, <2>2
<1>4. BooksBalance'
  <2>1. \A i \in DOMAIN orders : orders[i] = StatusOf(i, effects')
    BY <1>3, Balanced DEF DeskInv
  <2>. QED  BY <2>1, BalancedNext, Balanced DEF DeskInv
<1>. QED  BY <1>2, <1>4 DEF DeskInv

(* Place puts order Len(orders) + 1 on the books, which nobody has touched. *)
LEMMA PlaceStep ==
  ASSUME DeskInv, NEW o \in Operations, Place(o)
  PROVE  DeskInv'
<1>1. CASE ~inStock
  BY <1>1, QuietEnd DEF Place
<1>2. CASE inStock
  <2> DEFINE n == Len(orders)
  <2>1. /\ Ends(o, "ok") /\ orders' = Append(orders, "placed") /\ UNCHANGED refunds
        /\ charges' = Append(charges, n + 1) /\ sent' = Append(sent, n + 1)
        /\ effects' = Append(effects, o) /\ Action[o] = "place"
    BY <1>2 DEF Place, Ends
  <2>2. /\ n \in Nat /\ orders \in Seq(OrderStates) /\ effects \in Seq(Operations)
        /\ DeskTypes /\ EffectsHold /\ refunds \in Seq(Nat) /\ DOMAIN orders = 1 .. n
    BY DEF DeskInv, DeskTypes
  <2>3. /\ orders' \in Seq(OrderStates) /\ Len(orders') = n + 1 /\ DOMAIN orders' = 1 .. n + 1
        /\ orders'[n + 1] = "placed" /\ \A i \in 1 .. n : orders'[i] = orders[i]
    <3>1. "placed" \in OrderStates
      BY DEF OrderStates
    <3>. QED  BY <2>1, <2>2, <3>1, AppendProperties
  <2> HIDE DEF n
  <2>4. DeskTypes' /\ EffectsHold' /\ TrailHolds'
    <3>1. Len(orders) <= Len(orders') /\ refunds' \in Seq(Nat)
      BY <2>1, <2>2, <2>3 DEF n
    <3>2. ~(Action[o] \in {"cancel", "refund"})
      BY <2>1
    <3>. QED  BY <2>1, <2>3, <3>1, <3>2, EndHolds
  <2>5. charges' = [i \in 1 .. n + 1 |-> i] /\ sent' = charges'
    <3>1. charges = [i \in 1 .. n |-> i] /\ sent = charges
      BY Balanced DEF DeskInv, n
    <3>2. [i \in 1 .. n |-> i] \in Seq(Nat) /\ Len([i \in 1 .. n |-> i]) = n
      BY <2>2
    <3>3. Append([i \in 1 .. n |-> i], n + 1) = [i \in 1 .. n + 1 |-> i]
      BY <2>2, <3>2
    <3>. QED  BY <2>1, <3>1, <3>3
  <2>6. ToSet(refunds') \subseteq ToSet(charges')
    <3>1. ToSet(refunds) \subseteq ToSet([i \in 1 .. n |-> i])
      BY Balanced DEF DeskInv, n
    <3>2. ToSet([i \in 1 .. n |-> i]) \subseteq ToSet([i \in 1 .. n + 1 |-> i])
      BY <2>2 DEF ToSet
    <3>. QED  BY <2>1, <2>5, <3>1, <3>2
  <2>7. \A i \in DOMAIN orders' : orders'[i] = StatusOf(i, effects')
    <3>. SUFFICES ASSUME NEW i \in 1 .. n + 1 PROVE orders'[i] = StatusOf(i, effects')
      BY <2>3
    <3>1. o \notin Touching(i)
      BY <2>1 DEF Touching
    <3>2. StatusOf(i, effects') = StatusOf(i, effects)
      BY <2>1, <2>2, <3>1, StatusNext
    <3>3. CASE i \in 1 .. n
      BY <2>2, <2>3, <3>2, <3>3, Balanced DEF DeskInv
    <3>4. CASE i = n + 1
      <4>1. i \in Nat /\ i > Len(orders)
        BY <2>2, <3>4 DEF n
      <4>2. StatusOf(i, effects) = "placed"
        BY <2>2, <4>1, Untouched
      <4>. QED  BY <2>3, <3>2, <3>4, <4>2
    <3>. QED  BY <2>2, <3>3, <3>4
  <2>8. BooksBalance'
    BY <2>3, <2>5, <2>6, <2>7, BalancedNext
  <2>. QED  BY <2>4, <2>8 DEF DeskInv
<1>. QED  BY <1>1, <1>2

(* A cancellation or a refund of an order that is there.                   *)
LEMMA TouchStep ==
  ASSUME DeskInv, NEW o \in Operations, CancelOrder(o) \/ Refund(o)
  PROVE  DeskInv'
<1>1. CASE OrderNo[o] \notin DOMAIN orders
  BY <1>1, QuietEnd DEF CancelOrder, Refund
<1>2. CASE OrderNo[o] \in DOMAIN orders
  <2> DEFINE no == OrderNo[o]
             status == IF Action[o] = "cancel" THEN "cancelled" ELSE "refunded"
  <2>1. /\ Ends(o, "ok") /\ effects' = Append(effects, o) /\ Action[o] \in {"cancel", "refund"}
        /\ orders' = [orders EXCEPT ![no] = status] /\ UNCHANGED <<charges, sent>>
        /\ refunds' = refunds \/ refunds' = Append(refunds, no)
    BY <1>2 DEF CancelOrder, Refund, Ends
  <2>2. /\ Len(orders) \in Nat /\ orders \in Seq(OrderStates) /\ effects \in Seq(Operations)
        /\ DeskTypes /\ EffectsHold /\ refunds \in Seq(Nat) /\ DOMAIN orders = 1 .. Len(orders)
        /\ no \in 1 .. Len(orders) /\ status \in OrderStates
    BY <1>2 DEF DeskInv, DeskTypes, OrderStates
  <2>3. o \in Touching(no) /\ \A i : i # no => o \notin Touching(i)
    BY <2>1 DEF Touching
  <2>4. status = IF Action[o] = "cancel" THEN "cancelled" ELSE "refunded"
    OBVIOUS
  <2> HIDE DEF status
  <2>5. orders' \in Seq(OrderStates) /\ Len(orders') = Len(orders) /\ DOMAIN orders' = 1 .. Len(orders)
        /\ orders'[no] = status /\ \A i \in 1 .. Len(orders) : i # no => orders'[i] = orders[i]
    BY <2>1, <2>2, ExceptSeq
  <2>6. refunds' \in Seq(Nat) /\ ToSet(refunds') \subseteq ToSet(refunds) \cup {no}
    <3>1. no \in Nat
      BY <2>2
    <3>2. ToSet(Append(refunds, no)) = ToSet(refunds) \cup {no} /\ Append(refunds, no) \in Seq(Nat)
      BY <2>2, <3>1, ToSetAppend
    <3>. QED  BY <2>1, <2>2, <3>2
  <2>7. DeskTypes' /\ EffectsHold' /\ TrailHolds'
    BY <2>1, <2>2, <2>5, <2>6, EndHolds
  <2>8. charges' = [i \in 1 .. Len(orders') |-> i] /\ sent' = charges'
    BY <2>1, <2>5, Balanced DEF DeskInv
  <2>9. ToSet(refunds') \subseteq ToSet(charges')
    <3>1. no \in ToSet(charges)
      BY <2>2, Balanced DEF DeskInv, ToSet
    <3>. QED  BY <2>1, <2>6, <3>1, Balanced DEF DeskInv
  <2>10. \A i \in DOMAIN orders' : orders'[i] = StatusOf(i, effects')
    <3>. SUFFICES ASSUME NEW i \in 1 .. Len(orders) PROVE orders'[i] = StatusOf(i, effects')
      BY <2>5
    <3>1. StatusOf(i, effects') = IF o \in Touching(i) THEN status ELSE StatusOf(i, effects)
      BY <2>1, <2>2, <2>4, StatusNext
    <3>. QED  BY <2>2, <2>3, <2>5, <3>1, Balanced DEF DeskInv
  <2>11. BooksBalance'
    BY <2>8, <2>9, <2>10, BalancedNext
  <2>. QED  BY <2>7, <2>11 DEF DeskInv
<1>. QED  BY <1>1, <1>2

LEMMA DeskStep == DeskInv /\ [DeskNext]_deskVars => DeskInv'
<1>. SUFFICES ASSUME DeskInv, [DeskNext]_deskVars PROVE DeskInv'
  OBVIOUS
<1>1. ASSUME NEW o \in Operations, Export(o) PROVE DeskInv'
  BY <1>1, QuietEnd DEF Export
<1>2. ASSUME NEW o \in Operations, Abandon(o) PROVE DeskInv'
  BY <1>2, QuietEnd DEF Abandon
<1>3. CASE UNCHANGED deskVars
  BY <1>3 DEF deskVars, DeskInv, DeskTypes, EffectsHold, TrailHolds, Records, BooksBalance, Touching
<1>. QED  BY <1>1, <1>2, <1>3, StartStep, PlaceStep, TouchStep DEF DeskNext

LEMMA DeskTypesFollow == DeskInv => DeskTypeOK
  BY DEF DeskInv, DeskTypes, EffectsHold, DeskTypeOK, OrderStates, ToSet

LEMMA TrailFollows == DeskInv => TrailTellsWhatHappened
  BY DEF DeskInv, TrailHolds, Records, TrailTellsWhatHappened

LEMMA AlwaysDeskInv == DeskSpec => []DeskInv
  BY InitDesk, DeskStep, PTL DEF DeskSpec

-----------------------------------------------------------------------------
(* Signup.                                                                 *)
SignupStates == {"idle", "mailing", "registered", "mail failed", "cancelled", "RuntimeError"}

(* The ids given out are the first so many.                                *)
UsersFollow == IsFiniteSet(Users) /\ Users = 1 .. Cardinality(Users)

SignupInv ==
  /\ twin \in {"async", "sync"} /\ bound \in BOOLEAN
  /\ userOf \in [Signups -> Nat] /\ signup \in [Signups -> SignupStates]
  /\ lookup \in [Lookups -> {"idle", "found", "UserNotFound"}]
  /\ mails \subseteq Users
  /\ \A s \in Signups : signup[s] # "idle" <=> userOf[s] # 0
  /\ UsersFollow
  /\ SignupsKeepTheirUsers

-----------------------------------------------------------------------------
LEMMA InitSignup == SignupInit => SignupInv
<1>. SUFFICES ASSUME SignupInit PROVE SignupInv
  OBVIOUS
<1>1. Users = {}
  BY DEF SignupInit, Users
<1>2. UsersFollow
  BY <1>1, FS_EmptySet DEF UsersFollow
<1>. QED  BY <1>1, <1>2 DEF SignupInit, SignupInv, SignupStates, SignupsKeepTheirUsers

(* create gives a signup a number nobody has had.                          *)
LEMMA NewUser ==
  ASSUME SignupInv, NEW s \in Signups, userOf[s] = 0, userOf' = [userOf EXCEPT ![s] = NextUserId]
  PROVE  /\ NextUserId \in Nat \ {0} /\ NextUserId \notin Users
         /\ Users' = Users \cup {NextUserId} /\ UsersFollow'
         /\ userOf' \in [Signups -> Nat] /\ userOf'[s] = NextUserId
         /\ \A t \in Signups \ {s} : userOf'[t] = userOf[t]
<1> DEFINE n == Cardinality(Users)
<1>1. n \in Nat /\ IsFiniteSet(Users) /\ Users = 1 .. n /\ NextUserId = n + 1
  BY FS_CardinalityType DEF SignupInv, UsersFollow, NextUserId
<1> HIDE DEF n
<1>2. NextUserId \in Nat \ {0} /\ NextUserId \notin Users
  BY <1>1
<1>3. userOf' \in [Signups -> Nat] /\ userOf'[s] = NextUserId
      /\ \A t \in Signups \ {s} : userOf'[t] = userOf[t]
  BY <1>2 DEF SignupInv
<1>4. Users' = Users \cup {NextUserId}
  BY <1>2, <1>3 DEF Users
<1>5. Users' = 1 .. n + 1 /\ IsFiniteSet(Users') /\ Cardinality(Users') = n + 1
  <2>1. 1 .. n \cup {n + 1} = 1 .. n + 1
    BY <1>1
  <2>2. Users' = 1 .. n + 1
    BY <1>1, <1>4, <2>1
  <2>3. IsFiniteSet(Users \cup {NextUserId}) /\ Cardinality(Users \cup {NextUserId}) = Cardinality(Users) + 1
    BY <1>1, <1>2, FS_AddElement
  <2>. QED  BY <1>4, <2>2, <2>3 DEF n
<1>6. UsersFollow'
  BY <1>5 DEF UsersFollow
<1>. QED  BY <1>2, <1>3, <1>4, <1>6

(* A signup's next state, and what that makes of the mails.                *)
Becomes(s, user, to) ==
  /\ signup' = [signup EXCEPT ![s] = to]
  /\ mails \subseteq mails' /\ mails' \subseteq mails \cup {user}
  /\ to = "registered" => user \in mails'

LEMMA SignUpStep ==
  ASSUME SignupInv, NEW s \in Signups, SignUp(s)
  PROVE  SignupInv'
<1>1. /\ signup[s] = "idle" /\ userOf[s] = 0 /\ UNCHANGED <<twin, bound, lookup>>
      /\ userOf' = [userOf EXCEPT ![s] = NextUserId]
  BY DEF SignUp, SignupInv
<1>2. /\ NextUserId \in Nat \ {0} /\ NextUserId \notin Users
      /\ Users' = Users \cup {NextUserId} /\ UsersFollow'
      /\ userOf' \in [Signups -> Nat] /\ userOf'[s] = NextUserId
      /\ \A t \in Signups \ {s} : userOf'[t] = userOf[t]
  BY <1>1, NewUser
<1>3. PICK to \in SignupStates \ {"idle"} : Becomes(s, NextUserId, to)
  <2>1. \/ SendUnbound(s) \/ Mailed(s, NextUserId) \/ MailFails(s)
        \/ UNCHANGED mails /\ signup' = [signup EXCEPT ![s] = "mailing"]
    BY DEF SignUp
  <2>2. SendUnbound(s) => Becomes(s, NextUserId, "RuntimeError")
    BY DEF SendUnbound, Becomes
  <2>3. Mailed(s, NextUserId) => Becomes(s, NextUserId, "registered")
    BY DEF Mailed, Becomes
  <2>4. MailFails(s) => Becomes(s, NextUserId, "mail failed")
    BY DEF MailFails, Becomes
  <2>5. UNCHANGED mails /\ signup' = [signup EXCEPT ![s] = "mailing"] => Becomes(s, NextUserId, "mailing")
    BY DEF Becomes
  <2>6. {"RuntimeError", "registered", "mail failed", "mailing"} \subseteq SignupStates \ {"idle"}
    BY DEF SignupStates
  <2>. QED  BY <2>1, <2>2, <2>3, <2>4, <2>5, <2>6
<1>4. signup' \in [Signups -> SignupStates] /\ signup'[s] = to
      /\ \A t \in Signups \ {s} : signup'[t] = signup[t]
  BY <1>3 DEF SignupInv, Becomes
<1>5. \A t \in Signups : signup'[t] # "idle" <=> userOf'[t] # 0
  BY <1>2, <1>3, <1>4 DEF SignupInv
<1>6. \A t, u \in Signups : t # u /\ userOf'[t] # 0 => userOf'[t] # userOf'[u]
  <2>1. \A t \in Signups \ {s} : userOf[t] # NextUserId
    BY <1>2 DEF Users
  <2>2. \A t, u \in Signups : t # u /\ userOf[t] # 0 => userOf[t] # userOf[u]
    BY DEF SignupInv, SignupsKeepTheirUsers
  <2>. QED  BY <1>2, <2>1, <2>2
<1>7. \A t \in Signups : signup'[t] = "registered" => userOf'[t] \in mails'
  BY <1>2, <1>3, <1>4 DEF SignupInv, SignupsKeepTheirUsers, Becomes
<1>8. SignupsKeepTheirUsers'
  BY <1>5, <1>6, <1>7 DEF SignupsKeepTheirUsers
<1>9. mails' \subseteq Users'
  BY <1>2, <1>3 DEF SignupInv, Becomes
<1>. QED  BY <1>1, <1>2, <1>4, <1>5, <1>8, <1>9 DEF SignupInv

LEMMA MailStep ==
  ASSUME SignupInv, NEW s \in Signups, MailEnds(s)
  PROVE  SignupInv'
<1>1. signup[s] = "mailing" /\ UNCHANGED <<twin, bound, userOf, lookup>>
  BY DEF MailEnds
<1>2. PICK to \in SignupStates \ {"idle"} : Becomes(s, userOf[s], to)
  <2>1. \/ Mailed(s, userOf[s]) \/ MailFails(s)
        \/ /\ signup' = [signup EXCEPT ![s] = "cancelled"]
           /\ mails' \in {mails, mails \cup {userOf[s]}}
    BY DEF MailEnds
  <2>2. Mailed(s, userOf[s]) => Becomes(s, userOf[s], "registered")
    BY DEF Mailed, Becomes
  <2>3. MailFails(s) => Becomes(s, userOf[s], "mail failed")
    BY DEF MailFails, Becomes
  <2>4. /\ signup' = [signup EXCEPT ![s] = "cancelled"]
        /\ mails' \in {mails, mails \cup {userOf[s]}}
        => Becomes(s, userOf[s], "cancelled")
    BY DEF Becomes
  <2>5. {"registered", "mail failed", "cancelled"} \subseteq SignupStates \ {"idle"}
    BY DEF SignupStates
  <2>. QED  BY <2>1, <2>2, <2>3, <2>4, <2>5
<1>3. signup' \in [Signups -> SignupStates] /\ signup'[s] = to
      /\ \A t \in Signups \ {s} : signup'[t] = signup[t]
  BY <1>2 DEF SignupInv, Becomes
<1>4. Users' = Users /\ UsersFollow' /\ userOf[s] \in Users
  <2>1. Users' = Users
    BY <1>1 DEF Users
  <2>2. userOf[s] \in Users
    BY <1>1 DEF Users, SignupInv
  <2>. QED  BY <2>1, <2>2 DEF UsersFollow, SignupInv
<1>5. SignupsKeepTheirUsers'
  BY <1>1, <1>2, <1>3 DEF SignupInv, SignupsKeepTheirUsers, Becomes
<1>6. mails' \subseteq Users'
  BY <1>2, <1>4 DEF SignupInv, Becomes
<1>7. \A t \in Signups : signup'[t] # "idle" <=> userOf'[t] # 0
  BY <1>1, <1>2, <1>3 DEF SignupInv
<1>. QED  BY <1>1, <1>3, <1>4, <1>5, <1>6, <1>7 DEF SignupInv

LEMMA SignupStep == SignupInv /\ [SignupNext]_signupVars => SignupInv'
<1>. SUFFICES ASSUME SignupInv, [SignupNext]_signupVars PROVE SignupInv'
  OBVIOUS
<1>1. CASE BindSender \/ (\E g \in Lookups : GetsUser(g)) \/ UNCHANGED signupVars
  <2>1. /\ UNCHANGED <<twin, userOf, mails, signup>> /\ bound' \in BOOLEAN
        /\ lookup' \in [Lookups -> {"idle", "found", "UserNotFound"}]
    BY <1>1 DEF BindSender, GetsUser, signupVars, SignupInv
  <2>2. Users' = Users
    BY <2>1 DEF Users
  <2>. QED  BY <2>1, <2>2 DEF SignupInv, UsersFollow, SignupsKeepTheirUsers
<1>. QED  BY <1>1, SignUpStep, MailStep DEF SignupNext

LEMMA SignupTypesFollow == SignupInv => SignupTypeOK
<1>. SUFFICES ASSUME SignupInv PROVE userOf \in [Signups -> 0 .. Cardinality(Signups)]
  BY DEF SignupInv, SignupTypeOK, SignupStates
<1>1. Cardinality(Users) <= Cardinality(Signups) /\ Cardinality(Users) \in Nat /\ Cardinality(Signups) \in Nat
  <2> DEFINE ids == {userOf[s] : s \in Signups}
  <2>1. IsFiniteSet(ids) /\ Cardinality(ids) <= Cardinality(Signups)
    BY SignupAssumption, Images
  <2>2. Users \subseteq ids
    BY DEF Users
  <2> HIDE DEF ids
  <2>3. Cardinality(Users) <= Cardinality(ids)
    BY <2>1, <2>2, FS_Subset
  <2>4. Cardinality(ids) \in Nat /\ Cardinality(Users) \in Nat /\ Cardinality(Signups) \in Nat
    BY <2>1, SignupAssumption, FS_CardinalityType DEF SignupInv, UsersFollow
  <2>. QED  BY <2>1, <2>3, <2>4
<1>2. ASSUME NEW s \in Signups PROVE userOf[s] \in 0 .. Cardinality(Signups)
  <2>1. userOf[s] = 0 \/ userOf[s] \in Users
    BY DEF Users
  <2>2. userOf[s] = 0 \/ userOf[s] \in 1 .. Cardinality(Users)
    BY <2>1 DEF SignupInv, UsersFollow
  <2>. QED  BY <1>1, <2>2
<1>. QED  BY <1>2 DEF SignupInv

LEMMA AlwaysSignupInv == SignupSpec => []SignupInv
  BY InitSignup, SignupStep, PTL DEF SignupSpec

-----------------------------------------------------------------------------
(* RateLimit.                                                              *)
Sharers(l) == {r \in {"decorated", "mediated"} : limiter[r] = l}
Taken(l) == {i \in DOMAIN store : store[i] \in Sharers(l)}

RateTypes ==
  /\ limiter \in [{"decorated", "mediated"} -> Limiters \cup {AlwaysAllow}]
  /\ used \in [Limiters -> Nat] /\ calls \in [Routes -> Nat]
  /\ store \in Seq(Routes)

(* A limiter has counted the calls of its routes, and let the first of     *)
(* them through; no task without a call.                                   *)
CountsHold ==
  \A l \in Limiters :
    /\ used[l] = SumOver(calls, Sharers(l))
    /\ Cardinality(Taken(l)) = IF Quota <= used[l] THEN Quota ELSE used[l]
CallsBounded ==
  /\ calls["decorated"] + calls["mediated"] + calls["plain"] <= MaxAdds
  /\ Len(store) <= calls["decorated"] + calls["mediated"] + calls["plain"]

RateInv == RateTypes /\ CountsHold /\ CallsBounded

-----------------------------------------------------------------------------
LEMMA SharersAre ==
  ASSUME NEW l
  PROVE  Sharers(l) \in SUBSET {"decorated", "mediated"} /\ Sharers(l) \in SUBSET Routes /\ IsFiniteSet(Sharers(l))
<1>3. IsFiniteSet({"decorated", "mediated"})
  BY FinitePair
<1>4. Sharers(l) \in SUBSET {"decorated", "mediated"}
  BY DEF Sharers
<1>. QED  BY <1>3, <1>4, FS_Subset DEF Routes

LEMMA TakenFinite ==
  ASSUME RateTypes, NEW l
  PROVE  IsFiniteSet(Taken(l)) /\ Taken(l) \subseteq 1 .. Len(store)
<1>1. Taken(l) \subseteq 1 .. Len(store) /\ Len(store) \in Nat
  BY DEF Taken, RateTypes
<1>2. IsFiniteSet(1 .. Len(store))
  BY <1>1, FS_Interval
<1>. QED  BY <1>1, <1>2, FS_Subset

LEMMA InitRate == RateInit => RateInv
<1>. SUFFICES ASSUME RateInit PROVE RateInv
  OBVIOUS
<1>1. RateTypes /\ CallsBounded
  BY RateAssumption DEF RateInit, RateTypes, CallsBounded, Routes, Limiters
<1>2. ASSUME NEW l \in Limiters
      PROVE  used[l] = SumOver(calls, Sharers(l)) /\ Cardinality(Taken(l)) = 0
  <2>1. Taken(l) = {} /\ Cardinality({}) = 0
    BY FS_EmptySet DEF Taken, RateInit
  <2>2. SumOver(calls, Sharers(l)) = 0
    <3>1. CASE Sharers(l) = {}
      BY <3>1, SumEmpty
    <3>2. CASE Sharers(l) = {"decorated"}
      BY <3>2, SumOfOne DEF RateInit, Routes
    <3>3. CASE Sharers(l) = {"mediated"}
      BY <3>3, SumOfOne DEF RateInit, Routes
    <3>4. CASE Sharers(l) = {"decorated", "mediated"}
      BY <3>4, SumOfTwo DEF RateInit, Routes
    <3>. QED  BY <3>1, <3>2, <3>3, <3>4 DEF Sharers
  <2>. QED  BY <2>1, <2>2 DEF RateInit
<1>3. CountsHold
  BY <1>2, RateAssumption DEF CountsHold, RateInit
<1>. QED  BY <1>1, <1>3 DEF RateInv

(* A call by route r, counted by the limiters in at, adds a task or not.   *)
LEMMA Tasked ==
  ASSUME RateTypes, NEW r \in Routes, store' = Append(store, r), UNCHANGED limiter, NEW l
  PROVE  /\ store' \in Seq(Routes) /\ Len(store') = Len(store) + 1
         /\ Cardinality(Taken(l)') = Cardinality(Taken(l)) + IF r \in Sharers(l) THEN 1 ELSE 0
<1>1. /\ store' \in Seq(Routes) /\ Len(store') = Len(store) + 1 /\ Len(store) \in Nat
      /\ store'[Len(store) + 1] = r /\ \A i \in 1 .. Len(store) : store'[i] = store[i]
      /\ DOMAIN store' = 1 .. Len(store) + 1 /\ DOMAIN store = 1 .. Len(store)
  BY AppendProperties DEF RateTypes
<1>2. Sharers(l)' = Sharers(l)
  BY DEF Sharers
<1> DEFINE n == Len(store) + 1
<1>3. \A i \in 1 .. n : i \in 1 .. Len(store) \/ i = n
  BY <1>1
<1>4. n \notin Taken(l) /\ n \in 1 .. n /\ IsFiniteSet(Taken(l)) /\ Cardinality(Taken(l)) \in Nat
  BY <1>1, TakenFinite, FS_CardinalityType
<1> HIDE DEF n
<1>5. CASE r \in Sharers(l)
  <2>1. Taken(l)' = Taken(l) \cup {n}
    BY <1>1, <1>2, <1>3, <1>4, <1>5 DEF Taken, n
  <2>2. Cardinality(Taken(l) \cup {n}) = Cardinality(Taken(l)) + 1
    BY <1>4, FS_AddElement
  <2>. QED  BY <1>1, <1>5, <2>1, <2>2
<1>6. CASE r \notin Sharers(l)
  <2>1. Taken(l)' = Taken(l)
    BY <1>1, <1>2, <1>3, <1>6 DEF Taken, n
  <2>. QED  BY <1>1, <1>4, <1>6, <2>1
<1>. QED  BY <1>5, <1>6

LEMMA CalledSum ==
  ASSUME RateTypes, NEW r \in Routes, Called(r)
  PROVE  /\ calls' \in [Routes -> Nat] /\ UNCHANGED limiter
         /\ calls'["decorated"] + calls'["mediated"] + calls'["plain"] =
              calls["decorated"] + calls["mediated"] + calls["plain"] + 1
         /\ calls["decorated"] + calls["mediated"] + calls["plain"] < MaxAdds
         /\ \A l : /\ Sharers(l)' = Sharers(l)
                   /\ SumOver(calls', Sharers(l)) =
                        SumOver(calls, Sharers(l)) + IF r \in Sharers(l) THEN 1 ELSE 0
<1>1. calls' = [calls EXCEPT ![r] = @ + 1] /\ UNCHANGED limiter /\ calls \in [Routes -> Nat]
  BY DEF Called, RateTypes
<1>2. SumOver(calls, Routes) < MaxAdds
  BY DEF Called, SumOver
<1>3. Routes = {"decorated", "mediated", "plain"}
  BY DEF Routes
<1>4. calls["decorated"] \in Nat /\ calls["mediated"] \in Nat /\ calls["plain"] \in Nat
  BY <1>1, <1>3
<1>5. SumOver(calls, Routes) = calls["decorated"] + calls["mediated"] + calls["plain"]
  <2>1. IsFiniteSet({"decorated", "mediated"})
    BY FinitePair
  <2>2. SumOver(calls, {"decorated", "mediated"} \cup {"plain"}) =
          SumOver(calls, {"decorated", "mediated"}) + calls["plain"]
    <3>1. "plain" \notin {"decorated", "mediated"}
          /\ \A x \in {"decorated", "mediated"} \cup {"plain"} : calls[x] \in Int
      BY <1>4
    <3>. QED  BY <2>1, <3>1, SumAdd
  <2>3. {"decorated", "mediated"} \cup {"plain"} = Routes
    BY <1>3
  <2>4. SumOver(calls, {"decorated", "mediated"}) = calls["decorated"] + calls["mediated"]
    <3>1. calls["decorated"] \in Int /\ calls["mediated"] \in Int /\ "decorated" # "mediated"
      BY <1>4
    <3>. QED  BY <3>1, SumOfTwo, Zenon
  <2>5. SumOver(calls, Routes) = SumOver(calls, {"decorated", "mediated"}) + calls["plain"]
    BY <2>2, <2>3, Zenon
  <2>. QED  BY <1>4, <2>4, <2>5
<1>6. calls["decorated"] + calls["mediated"] + calls["plain"] < MaxAdds
  BY <1>2, <1>5, Zenon
<1>7. calls'["decorated"] + calls'["mediated"] + calls'["plain"] =
              calls["decorated"] + calls["mediated"] + calls["plain"] + 1
  BY <1>1, <1>3, <1>4
<1>8. ASSUME NEW l
      PROVE  /\ Sharers(l)' = Sharers(l)
             /\ SumOver(calls', Sharers(l)) =
                  SumOver(calls, Sharers(l)) + IF r \in Sharers(l) THEN 1 ELSE 0
  <2>1. Sharers(l)' = Sharers(l)
    BY <1>1 DEF Sharers
  <2>2. Sharers(l) \in SUBSET Routes /\ IsFiniteSet(Sharers(l))
    BY SharersAre
  <2>3. SumOver(calls', Sharers(l)) =
          SumOver(calls, Sharers(l)) + IF r \in Sharers(l) THEN 1 ELSE 0
    <3> DEFINE S == Sharers(l)
    <3>1. S \in SUBSET Routes /\ IsFiniteSet(S)
      BY <2>2
    <3> HIDE DEF S
    <3>2. /\ r \in S => SumOver(calls', S) = SumOver(calls, S) + 1
          /\ r \notin S => SumOver(calls', S) = SumOver(calls, S)
          /\ SumOver(calls, S) \in Int
      <4>1. calls'[r] = calls[r] + 1 /\ (\A x \in S \ {r} : calls'[x] = calls[x])
            /\ \A x \in S : calls[x] \in Int
        BY <1>1, <3>1
      <4>. QED  BY <3>1, <4>1, SumBump
    <3>. QED  BY <3>2 DEF S
  <2>. QED  BY <1>1, <2>1, <2>3, Zenon
<1>9. calls' \in [Routes -> Nat]
  BY <1>1
<1>. QED  BY <1>1, <1>6, <1>7, <1>8, <1>9, Zenon

(* A call through a limiter, or past all of them, keeps the counts true.   *)
LEMMA LimitedStep ==
  ASSUME RateInv, NEW r \in {"decorated", "mediated"}, Called(r),
         \/ Passes(limiter[r]) /\ NewTask(r)
         \/ Rejects(limiter[r]) /\ UNCHANGED store
  PROVE  RateInv'
<1> DEFINE k == limiter[r]
           total == calls["decorated"] + calls["mediated"] + calls["plain"]
<1>1. /\ RateTypes /\ r \in Routes /\ k \in Limiters \cup {AlwaysAllow}
      /\ used \in [Limiters -> Nat] /\ Len(store) \in Nat /\ store \in Seq(Routes)
      /\ Quota \in Nat /\ total \in Nat /\ limiter \in [{"decorated", "mediated"} -> Limiters \cup {AlwaysAllow}]
  BY RateAssumption DEF RateInv, RateTypes, Routes
<1>2. /\ calls' \in [Routes -> Nat] /\ UNCHANGED limiter /\ total' = total + 1 /\ total < MaxAdds
      /\ \A l : /\ Sharers(l)' = Sharers(l)
                /\ SumOver(calls', Sharers(l)) =
                     SumOver(calls, Sharers(l)) + IF r \in Sharers(l) THEN 1 ELSE 0
  BY <1>1, CalledSum
<1>3. AlwaysAllow \notin Limiters
  BY DEF AlwaysAllow, Limiters
<1>4. \A l \in Limiters : r \in Sharers(l) <=> k = l
  BY DEF Sharers
<1>5. /\ used' \in [Limiters -> Nat]
      /\ \A l \in Limiters : used'[l] = used[l] + IF k = l THEN 1 ELSE 0
  BY <1>1, <1>3 DEF Passes, Rejects
<1>6. \/ store' = Append(store, r) /\ (k \in Limiters => used'[k] <= Quota)
      \/ store' = store /\ k \in Limiters /\ used'[k] > Quota
  <2>1. CASE Passes(k) /\ NewTask(r)
    <3>1. store' = Append(store, r)
      BY <2>1 DEF NewTask
    <3>2. k \in Limiters => ~(used'[k] > Quota)
      BY <1>3, <2>1 DEF Passes, Exceeded
    <3>. QED  BY <1>1, <1>5, <3>1, <3>2
  <2>2. CASE Rejects(k) /\ UNCHANGED store
    BY <1>1, <2>2 DEF Rejects, Exceeded
  <2>. QED  BY <2>1, <2>2
<1> HIDE DEF k, total
<1>7. store' \in Seq(Routes) /\ Len(store') <= Len(store) + 1 /\ Len(store') \in Nat
  <2>1. CASE store' = Append(store, r)
    <3>1. store' \in Seq(Routes) /\ Len(store') = Len(store) + 1
      BY <1>1, <1>2, <2>1, Tasked
    <3>. QED  BY <1>1, <3>1
  <2>2. CASE store' = store
    BY <1>1, <2>2
  <2>. QED  BY <1>6, <2>1, <2>2
<1>8. RateTypes'
  BY <1>1, <1>2, <1>5, <1>7 DEF RateTypes
<1>9. CallsBounded'
  <2>1. total' <= MaxAdds
    BY <1>1, <1>2, RateAssumption
  <2>2. Len(store) <= total
    BY DEF RateInv, CallsBounded, total
  <2>3. Len(store') <= total'
    BY <1>1, <1>2, <1>7, <2>2
  <2>. QED  BY <2>1, <2>3 DEF CallsBounded, total
<1>10. ASSUME NEW l \in Limiters
       PROVE  /\ used'[l] = SumOver(calls', Sharers(l)')
              /\ Cardinality(Taken(l)') = IF Quota <= used'[l] THEN Quota ELSE used'[l]
  <2>1. used[l] = SumOver(calls, Sharers(l)) /\ used[l] \in Nat
        /\ Cardinality(Taken(l)) = IF Quota <= used[l] THEN Quota ELSE used[l]
    BY <1>1 DEF RateInv, CountsHold
  <2>2. /\ SumOver(calls', Sharers(l)') = used[l] + IF k = l THEN 1 ELSE 0
        /\ used'[l] = used[l] + IF k = l THEN 1 ELSE 0
    BY <1>2, <1>4, <1>5, <2>1
  <2>3. CASE store' = Append(store, r) /\ (k \in Limiters => used'[k] <= Quota)
    <3>1. Cardinality(Taken(l)') = Cardinality(Taken(l)) + IF k = l THEN 1 ELSE 0
      BY <1>1, <1>2, <1>4, <2>3, Tasked
    <3>2. k = l => used'[l] <= Quota
      BY <2>3
    <3>. QED  BY <1>1, <2>1, <2>2, <3>1, <3>2
  <2>4. CASE store' = store /\ k \in Limiters /\ used'[k] > Quota
    <3>1. Taken(l)' = Taken(l)
      BY <1>2, <2>4 DEF Taken
    <3>2. k = l => used'[l] > Quota
      BY <2>4
    <3>. QED  BY <1>1, <2>1, <2>2, <3>1, <3>2
  <2>. QED  BY <1>6, <2>3, <2>4
<1>11. CountsHold'
  BY <1>10 DEF CountsHold
<1>. QED  BY <1>8, <1>9, <1>11 DEF RateInv

LEMMA PlainStep == ASSUME RateInv, PlainAdd PROVE RateInv'
<1> DEFINE total == calls["decorated"] + calls["mediated"] + calls["plain"]
<1>1. /\ RateTypes /\ "plain" \in Routes /\ Len(store) \in Nat /\ total \in Nat
      /\ store' = Append(store, "plain") /\ UNCHANGED used /\ Called("plain")
  BY DEF RateInv, RateTypes, Routes, PlainAdd, NewTask
<1>2. /\ calls' \in [Routes -> Nat] /\ UNCHANGED limiter /\ total' = total + 1 /\ total < MaxAdds
      /\ \A l : /\ Sharers(l)' = Sharers(l)
                /\ SumOver(calls', Sharers(l)) =
                     SumOver(calls, Sharers(l)) + IF "plain" \in Sharers(l) THEN 1 ELSE 0
  BY <1>1, CalledSum
<1>3. \A l : "plain" \notin Sharers(l)
  BY DEF Sharers
<1> HIDE DEF total
<1>4. store' \in Seq(Routes) /\ Len(store') = Len(store) + 1
  BY <1>1, <1>2, Tasked
<1>5. RateTypes'
  BY <1>1, <1>2, <1>4 DEF RateTypes
<1>6. CallsBounded'
  <2>1. Len(store) <= total
    BY DEF RateInv, CallsBounded, total
  <2>2. total' <= MaxAdds /\ Len(store') <= total'
    BY <1>1, <1>2, <1>4, <2>1, RateAssumption
  <2>. QED  BY <2>2 DEF CallsBounded, total
<1>7. ASSUME NEW l \in Limiters
      PROVE  /\ used'[l] = SumOver(calls', Sharers(l)')
             /\ Cardinality(Taken(l)') = IF Quota <= used'[l] THEN Quota ELSE used'[l]
  <2>1. used[l] = SumOver(calls, Sharers(l)) /\ used[l] \in Nat
        /\ Cardinality(Taken(l)) = IF Quota <= used[l] THEN Quota ELSE used[l]
    BY <1>1 DEF RateInv, CountsHold, RateTypes
  <2>2. Cardinality(Taken(l)') = Cardinality(Taken(l)) + IF "plain" \in Sharers(l) THEN 1 ELSE 0
    BY <1>1, <1>2, Tasked
  <2>. QED  BY <1>1, <1>2, <1>3, <2>1, <2>2, RateAssumption
<1>8. CountsHold'
  BY <1>7 DEF CountsHold
<1>. QED  BY <1>5, <1>6, <1>8 DEF RateInv

LEMMA RateStep == RateInv /\ [RateNext]_rateVars => RateInv'
<1>. SUFFICES ASSUME RateInv, [RateNext]_rateVars PROVE RateInv'
  OBVIOUS
<1>1. CASE DecoratedAdd
  BY <1>1, LimitedStep DEF DecoratedAdd
<1>2. CASE MediatedAdd
  BY <1>2, LimitedStep DEF MediatedAdd
<1>3. CASE UNCHANGED rateVars
  BY <1>3 DEF rateVars, RateInv, RateTypes, CountsHold, CallsBounded, Sharers, Taken
<1>. QED  BY <1>1, <1>2, <1>3, PlainStep DEF RateNext

LEMMA QuotaFollows == RateInv => QuotaIsExact
<1>. SUFFICES ASSUME RateInv, NEW l \in Limiters
              PROVE  LET sharers == {r \in DOMAIN limiter : limiter[r] = l}
                         asked == MapThenSumSet(LAMBDA r : calls[r], sharers)
                     IN  Cardinality({i \in DOMAIN store : store[i] \in sharers}) = Min({Quota, asked})
  BY DEF QuotaIsExact
<1>1. {r \in DOMAIN limiter : limiter[r] = l} = Sharers(l)
  BY DEF RateInv, RateTypes, Sharers
<1>2. /\ used[l] = SumOver(calls, Sharers(l)) /\ used[l] \in Nat
      /\ Cardinality(Taken(l)) = IF Quota <= used[l] THEN Quota ELSE used[l]
  BY DEF RateInv, CountsHold, RateTypes
<1>3. Min({Quota, used[l]}) = IF Quota <= used[l] THEN Quota ELSE used[l]
  BY <1>2, RateAssumption, MinOfTwo
<1>4. Cardinality(Taken(l)) = Min({Quota, SumOver(calls, Sharers(l))})
  BY <1>2, <1>3
<1>. QED  BY <1>1, <1>4, Zenon DEF SumOver, Taken

LEMMA RateTypesFollow == RateInv => RateTypeOK
<1>. SUFFICES ASSUME RateInv PROVE RateTypeOK
  OBVIOUS
<1>1. /\ calls \in [Routes -> Nat] /\ used \in [Limiters -> Nat] /\ CallsBounded
      /\ limiter \in [{"decorated", "mediated"} -> Limiters \cup {AlwaysAllow}]
      /\ Len(store) \in Nat
  BY DEF RateInv, RateTypes
<1>2. calls["decorated"] \in Nat /\ calls["mediated"] \in Nat /\ calls["plain"] \in Nat
  BY <1>1 DEF Routes
<1>3. ASSUME NEW r \in Routes PROVE calls[r] \in 0 .. MaxAdds
  BY <1>1, <1>2, RateAssumption DEF Routes, CallsBounded
<1>4. ASSUME NEW l \in Limiters PROVE used[l] \in 0 .. MaxAdds
  <2>1. used[l] = SumOver(calls, Sharers(l))
    BY DEF RateInv, CountsHold
  <2>2. used[l] \in {0, calls["decorated"], calls["mediated"], calls["decorated"] + calls["mediated"]}
    <3>1. CASE Sharers(l) = {}
      BY <2>1, <3>1, SumEmpty
    <3>2. CASE Sharers(l) = {"decorated"}
      BY <1>2, <2>1, <3>2, SumOfOne
    <3>3. CASE Sharers(l) = {"mediated"}
      BY <1>2, <2>1, <3>3, SumOfOne
    <3>4. CASE Sharers(l) = {"decorated", "mediated"}
      BY <1>2, <2>1, <3>4, SumOfTwo
    <3>. QED  BY <3>1, <3>2, <3>3, <3>4 DEF Sharers
  <2>. QED  BY <1>1, <1>2, <2>2, RateAssumption DEF CallsBounded
<1>5. Len(store) <= MaxAdds
  BY <1>1, <1>2, RateAssumption DEF CallsBounded
<1>. QED  BY <1>1, <1>3, <1>4, <1>5 DEF RateTypeOK

LEMMA AlwaysRateInv == RateSpec => []RateInv
  BY InitRate, RateStep, PTL DEF RateSpec

-----------------------------------------------------------------------------
(* OrderForm.                                                              *)
Orderly(p) == Acceptable(p) /\ Route[p] = "orders"
Counted == {p \in Posts : Orderly(p) /\ postPc[p] \in {"counted", "answered"}}

FormTypes ==
  /\ formTwin \in {"async", "sync"}
  /\ postPc \in [Posts -> {"posted", "valid", "added", "counted", "answered"}]
  /\ response \in [Posts -> [status : {-1, 201, 422},
                             rules : {{}} \cup {BrokenRules[p] : p \in Posts}, order : Nat]]
  /\ next_id \in Nat /\ readId \in [Posts -> Nat] /\ overlapped \in BOOLEAN
  /\ formTwin = "async" => ~overlapped /\ \A p \in Posts : readId[p] = 0

PostHolds(p) ==
  /\ postPc[p] = "answered" <=> response[p].status # -1
  /\ response[p].order > 0 <=> postPc[p] = "answered" /\ Orderly(p)
  /\ postPc[p] \in {"valid", "added", "counted"} => Orderly(p) /\ formTwin = "sync"

(* Threads lose increments, and never count more than there were.          *)
CounterHolds ==
  /\ next_id <= Cardinality(Counted) /\ (Counted # {} => next_id > 0)
  /\ \A p \in Posts : postPc[p] = "added" => readId[p] <= Cardinality(Counted)

(* Without an overlap only the thread in the handler is between the        *)
(* counter and its order.                                                  *)
Given == IF \E p \in Posts : postPc[p] = "counted" THEN next_id - 1 ELSE next_id
InTurn ==
  ~overlapped =>
    /\ \A p, q \in InHandler : p = q
    /\ \A p \in Posts : postPc[p] = "added" => readId[p] = next_id
    /\ {response[p].order : p \in PlacedOrders} = 1 .. Given
    /\ Cardinality(PlacedOrders) = Given

FormInv == FormTypes /\ (\A p \in Posts : PostHolds(p)) /\ CounterHolds /\ InTurn

-----------------------------------------------------------------------------
LEMMA PostsFinite ==
  ASSUME NEW S \in SUBSET Posts
  PROVE  IsFiniteSet(S) /\ Cardinality(S) \in Nat /\ Cardinality(S) <= Cardinality(Posts)
         /\ \A p : p \notin S => Cardinality(S \cup {p}) = Cardinality(S) + 1
<1>1. IsFiniteSet(S) /\ Cardinality(S) <= Cardinality(Posts)
  BY FormAssumption, FS_Subset
<1>. QED  BY <1>1, FS_CardinalityType, FS_AddElement

LEMMA InitForm == FormInit => FormInv
<1>. SUFFICES ASSUME FormInit PROVE FormInv
  OBVIOUS
<1>1. FormTypes
  BY DEF FormInit, FormTypes, Unanswered
<1>2. \A p \in Posts : PostHolds(p)
  BY DEF FormInit, PostHolds, Unanswered
<1>3. Counted = {} /\ PlacedOrders = {} /\ InHandler = {}
  BY DEF FormInit, Counted, PlacedOrders, Unanswered, InHandler
<1>4. Cardinality({}) = 0
  BY FS_EmptySet
<1>5. CounterHolds
  BY <1>3, <1>4 DEF CounterHolds, FormInit
<1>6. InTurn
  <2>1. Given = 0
    BY DEF Given, FormInit
  <2>. QED  BY <1>3, <1>4, <2>1 DEF InTurn, FormInit
<1>. QED  BY <1>1, <1>2, <1>5, <1>6 DEF FormInv

(* The state of one post changes.                                          *)
LEMMA AnswersAre ==
  ASSUME FormTypes, NEW p \in Posts, NEW status \in {201, 422}, NEW rules, NEW order \in Nat,
         rules = {} \/ rules = BrokenRules[p], Answers(p, status, rules, order)
  PROVE  /\ postPc' \in [Posts -> {"posted", "valid", "added", "counted", "answered"}]
         /\ response' \in [Posts -> [status : {-1, 201, 422},
                             rules : {{}} \cup {BrokenRules[q] : q \in Posts}, order : Nat]]
         /\ postPc'[p] = "answered" /\ response'[p].status = status /\ response'[p].order = order
         /\ \A q \in Posts \ {p} : postPc'[q] = postPc[q] /\ response'[q] = response[q]
<1> DEFINE a == [status |-> status, rules |-> rules, order |-> order]
           Answer == [status : {-1, 201, 422}, rules : {{}} \cup {BrokenRules[q] : q \in Posts}, order : Nat]
<1>1. a \in Answer /\ a.status = status /\ a.order = order
  OBVIOUS
<1>2. postPc' = [postPc EXCEPT ![p] = "answered"] /\ response' = [response EXCEPT ![p] = a]
  BY DEF Answers
<1> HIDE DEF a
<1>3. response \in [Posts -> Answer]
  BY DEF FormTypes
<1> HIDE DEF Answer
<1>4. response' \in [Posts -> Answer] /\ response'[p] = a /\ \A q \in Posts \ {p} : response'[q] = response[q]
  BY <1>1, <1>2, <1>3
<1>5. postPc' \in [Posts -> {"posted", "valid", "added", "counted", "answered"}]
      /\ postPc'[p] = "answered" /\ \A q \in Posts \ {p} : postPc'[q] = postPc[q]
  BY <1>2 DEF FormTypes
<1>. QED  BY <1>1, <1>4, <1>5 DEF Answer

LEMMA OtherPosts ==
  ASSUME \A q \in Posts : PostHolds(q), NEW p \in Posts, UNCHANGED formTwin,
         \A q \in Posts \ {p} : postPc'[q] = postPc[q] /\ response'[q] = response[q]
  PROVE  \A q \in Posts \ {p} : PostHolds(q)'
  BY DEF PostHolds, Orderly, Acceptable

(* A refusal, a subscription, or a post that goes on to the pipeline's     *)
(* handler: nothing is counted.                                            *)
LEMMA UncountedStep ==
  ASSUME FormInv, NEW p \in Posts, postPc[p] = "posted",
         UNCHANGED <<formTwin, next_id, readId, overlapped>>,
         \/ Refuses(p) \/ Subscribes(p)
         \/ /\ Orderly(p) /\ formTwin = "sync"
            /\ postPc' = [postPc EXCEPT ![p] = "valid"] /\ UNCHANGED response
  PROVE  FormInv'
<1>1. FormTypes /\ (\A q \in Posts : PostHolds(q)) /\ PostHolds(p)
  BY DEF FormInv
<1>2. /\ postPc' \in [Posts -> {"posted", "valid", "added", "counted", "answered"}]
      /\ response' \in [Posts -> [status : {-1, 201, 422},
                             rules : {{}} \cup {BrokenRules[q] : q \in Posts}, order : Nat]]
      /\ response'[p].order = 0
      /\ \/ postPc'[p] = "answered" /\ ~Orderly(p) /\ response'[p].status # -1
         \/ /\ postPc'[p] = "valid" /\ Orderly(p) /\ formTwin = "sync"
            /\ response'[p].status = -1
      /\ \A q \in Posts \ {p} : postPc'[q] = postPc[q] /\ response'[q] = response[q]
  <2>1. CASE SchemaRefuses(p)
    <3>1. Answers(p, 422, {}, 0) /\ ~Orderly(p)
      BY <2>1 DEF SchemaRefuses, Orderly, Acceptable
    <3>. QED  BY <1>1, <3>1, AnswersAre
  <2>2. CASE PostInitRefuses(p) \/ ValidatorRefuses(p)
    <3>1. Answers(p, 422, BrokenRules[p], 0) /\ ~Orderly(p)
      BY <2>2 DEF PostInitRefuses, ValidatorRefuses, Orderly, Acceptable
    <3>. QED  BY <1>1, <3>1, AnswersAre
  <2>3. CASE Subscribes(p)
    <3>1. Answers(p, 201, {}, 0) /\ ~Orderly(p)
      BY <2>3 DEF Subscribes, Orderly
    <3>. QED  BY <1>1, <3>1, AnswersAre
  <2>4. CASE /\ Orderly(p) /\ formTwin = "sync"
             /\ postPc' = [postPc EXCEPT ![p] = "valid"] /\ UNCHANGED response
    BY <1>1, <2>4 DEF FormTypes, PostHolds
  <2>. QED  BY <2>1, <2>2, <2>3, <2>4 DEF Refuses
<1>3. FormTypes'
  BY <1>1, <1>2 DEF FormTypes
<1>4. \A q \in Posts : PostHolds(q)'
  <2>1. PostHolds(p)'
    BY <1>2 DEF PostHolds, Orderly, Acceptable
  <2>. QED  BY <1>1, <1>2, <2>1, OtherPosts
<1>5. Counted' = Counted
  BY <1>2 DEF Counted, Orderly, Acceptable
<1>6. PlacedOrders' = PlacedOrders /\ InHandler' = InHandler
      /\ (\A q \in PlacedOrders : response'[q] = response[q])
  BY <1>1, <1>2 DEF PlacedOrders, InHandler, PostHolds
<1>7. \A q \in Posts : \A at \in {"added", "counted"} : postPc'[q] = at <=> postPc[q] = at
  BY <1>2
<1>8. Given' = Given
  BY <1>7 DEF Given
<1>9. CounterHolds'
  BY <1>5, <1>7 DEF FormInv, CounterHolds
<1>10. {response'[q].order : q \in PlacedOrders'} = {response[q].order : q \in PlacedOrders}
  BY <1>6
<1>11. InTurn'
  BY <1>6, <1>7, <1>8, <1>10 DEF FormInv, InTurn
<1>. QED  BY <1>3, <1>4, <1>9, <1>11 DEF FormInv

(* One more order, numbered after the others.                              *)
LEMMA OnePlaced ==
  ASSUME FormTypes, NEW p \in Posts, p \notin PlacedOrders, NEW n \in Nat,
         {response[q].order : q \in PlacedOrders} = 1 .. n, Cardinality(PlacedOrders) = n,
         response'[p].order = n + 1, \A q \in Posts \ {p} : response'[q] = response[q]
  PROVE  /\ {response'[q].order : q \in PlacedOrders'} = 1 .. n + 1
         /\ Cardinality(PlacedOrders') = n + 1
<1>1. PlacedOrders' = PlacedOrders \cup {p}
  BY DEF PlacedOrders
<1>2. Cardinality(PlacedOrders') = n + 1
  <2>1. PlacedOrders \in SUBSET Posts
    BY DEF PlacedOrders
  <2>. QED  BY <1>1, <2>1, PostsFinite
<1>3. {response'[q].order : q \in PlacedOrders'} = {response[q].order : q \in PlacedOrders} \cup {n + 1}
  <2>1. \A q \in PlacedOrders : response'[q] = response[q]
    BY DEF PlacedOrders
  <2>. QED  BY <1>1, <2>1
<1>4. 1 .. n \cup {n + 1} = 1 .. n + 1
  OBVIOUS
<1>. QED  BY <1>2, <1>3, <1>4

LEMMA OneCounted ==
  ASSUME NEW p \in Posts, p \notin Counted, Orderly(p), postPc'[p] \in {"counted", "answered"},
         \A q \in Posts \ {p} : postPc'[q] = postPc[q]
  PROVE  Counted' = Counted \cup {p} /\ Cardinality(Counted') = Cardinality(Counted) + 1
         /\ Cardinality(Counted) \in Nat
<1>1. Counted' = Counted \cup {p}
  BY DEF Counted, Orderly, Acceptable
<1>2. Counted \in SUBSET Posts
  BY DEF Counted
<1>. QED  BY <1>1, <1>2, PostsFinite

(* The asynchronous twin counts and answers in one step.                   *)
LEMMA AsyncOrderStep ==
  ASSUME FormInv, NEW p \in Posts, formTwin = "async", postPc[p] = "posted", PlacesOrder(p),
         UNCHANGED <<formTwin, readId, overlapped>>
  PROVE  FormInv'
<1>1. FormTypes /\ (\A q \in Posts : PostHolds(q)) /\ next_id \in Nat /\ next_id' = next_id + 1
      /\ Orderly(p) /\ Answers(p, 201, {}, next_id + 1) /\ ~overlapped /\ PostHolds(p)
  BY DEF FormInv, FormTypes, PlacesOrder, Orderly
<1>2. /\ postPc' \in [Posts -> {"posted", "valid", "added", "counted", "answered"}]
      /\ response' \in [Posts -> [status : {-1, 201, 422},
                             rules : {{}} \cup {BrokenRules[q] : q \in Posts}, order : Nat]]
      /\ postPc'[p] = "answered" /\ response'[p].status = 201 /\ response'[p].order = next_id + 1
      /\ \A q \in Posts \ {p} : postPc'[q] = postPc[q] /\ response'[q] = response[q]
  <2>1. next_id + 1 \in Nat /\ 201 \in {201, 422}
    BY <1>1
  <2>. QED  BY <1>1, <2>1, AnswersAre
<1>3. FormTypes'
  BY <1>1, <1>2 DEF FormTypes
<1>4. \A q \in Posts : PostHolds(q)'
  <2>1. PostHolds(p)'
    BY <1>1, <1>2 DEF PostHolds, Orderly, Acceptable
  <2>. QED  BY <1>1, <1>2, <2>1, OtherPosts
<1>5. /\ \A q \in Posts : postPc[q] \in {"posted", "answered"}
      /\ \A q \in Posts : postPc'[q] \in {"posted", "answered"}
  <2>1. \A q \in Posts : postPc[q] \in {"posted", "answered"}
    BY <1>1 DEF FormTypes, PostHolds
  <2>. QED  BY <1>2, <2>1
<1>6. CounterHolds'
  <2>1. p \notin Counted
    BY DEF Counted
  <2>2. Cardinality(Counted') = Cardinality(Counted) + 1 /\ Cardinality(Counted) \in Nat
    BY <1>1, <1>2, <2>1, OneCounted
  <2>3. next_id <= Cardinality(Counted)
    BY DEF FormInv, CounterHolds
  <2>. QED  BY <1>1, <1>5, <2>2, <2>3 DEF CounterHolds
<1>7. InTurn'
  <2>1. Given = next_id /\ Given' = next_id + 1 /\ InHandler' = {}
    BY <1>1, <1>5 DEF Given, InHandler
  <2>2. {response[q].order : q \in PlacedOrders} = 1 .. next_id /\ Cardinality(PlacedOrders) = next_id
    BY <1>1, <2>1 DEF FormInv, InTurn
  <2>3. p \notin PlacedOrders
    BY <1>1 DEF PlacedOrders, PostHolds
  <2>4. /\ {response'[q].order : q \in PlacedOrders'} = 1 .. next_id + 1
        /\ Cardinality(PlacedOrders') = next_id + 1
    BY <1>1, <1>2, <2>2, <2>3, OnePlaced
  <2>. QED  BY <1>5, <2>1, <2>4 DEF InTurn
<1>. QED  BY <1>3, <1>4, <1>6, <1>7 DEF FormInv

(* The three steps of a thread in the handler.                             *)
LEMMA ReadStep == ASSUME FormInv, NEW p \in Posts, ReadCounter(p) PROVE FormInv'
<1>1. /\ FormTypes /\ (\A q \in Posts : PostHolds(q)) /\ PostHolds(p)
      /\ postPc[p] = "valid" /\ formTwin = "sync" /\ UNCHANGED <<formTwin, response, next_id>>
      /\ readId' = [readId EXCEPT ![p] = next_id] /\ postPc' = [postPc EXCEPT ![p] = "added"]
      /\ overlapped' = (overlapped \/ InHandler # {})
  BY DEF FormInv, ReadCounter
<1>2. /\ postPc' \in [Posts -> {"posted", "valid", "added", "counted", "answered"}] /\ postPc'[p] = "added"
      /\ readId' \in [Posts -> Nat] /\ readId'[p] = next_id
      /\ \A q \in Posts \ {p} : postPc'[q] = postPc[q] /\ readId'[q] = readId[q]
  BY <1>1 DEF FormTypes
<1>3. FormTypes'
  BY <1>1, <1>2 DEF FormTypes
<1>4. \A q \in Posts : PostHolds(q)'
  <2>1. PostHolds(p)'
    BY <1>1, <1>2 DEF PostHolds, Orderly, Acceptable
  <2>. QED  BY <1>1, <1>2, <2>1, OtherPosts
<1>5. Counted' = Counted /\ PlacedOrders' = PlacedOrders
  BY <1>1, <1>2 DEF Counted, Orderly, Acceptable, PlacedOrders
<1>6. CounterHolds'
  BY <1>1, <1>2, <1>5 DEF FormInv, CounterHolds
<1>7. InTurn'
  <2>. SUFFICES ASSUME ~overlapped' PROVE InTurn'
    BY DEF InTurn
  <2>1. ~overlapped /\ InHandler = {}
    BY <1>1
  <2>2. InHandler' = {p} /\ \A q \in Posts : postPc[q] # "counted" /\ postPc'[q] # "counted"
    BY <1>1, <1>2, <2>1 DEF InHandler
  <2>3. Given' = Given
    BY <1>1, <2>2 DEF Given
  <2>4. \A q \in Posts : postPc'[q] = "added" => q = p
    BY <1>2, <2>1 DEF InHandler
  <2>5. {response'[q].order : q \in PlacedOrders'} = 1 .. Given' /\ Cardinality(PlacedOrders') = Given'
    BY <1>1, <1>5, <2>1, <2>3 DEF FormInv, InTurn
  <2>. QED  BY <1>1, <1>2, <2>2, <2>4, <2>5 DEF InTurn
<1>. QED  BY <1>3, <1>4, <1>6, <1>7 DEF FormInv

LEMMA WriteStep == ASSUME FormInv, NEW p \in Posts, WriteCounter(p) PROVE FormInv'
<1>1. /\ FormTypes /\ (\A q \in Posts : PostHolds(q)) /\ PostHolds(p)
      /\ postPc[p] = "added" /\ formTwin = "sync" /\ UNCHANGED <<formTwin, response, readId, overlapped>>
      /\ next_id' = readId[p] + 1 /\ postPc' = [postPc EXCEPT ![p] = "counted"]
      /\ readId[p] \in Nat /\ next_id \in Nat /\ Orderly(p)
  BY DEF FormInv, WriteCounter, FormTypes, PostHolds
<1>2. /\ postPc' \in [Posts -> {"posted", "valid", "added", "counted", "answered"}] /\ postPc'[p] = "counted"
      /\ \A q \in Posts \ {p} : postPc'[q] = postPc[q]
  BY <1>1 DEF FormTypes
<1>3. FormTypes'
  BY <1>1, <1>2 DEF FormTypes
<1>4. \A q \in Posts : PostHolds(q)'
  <2>1. PostHolds(p)'
    BY <1>1, <1>2 DEF PostHolds, Orderly, Acceptable
  <2>. QED  BY <1>1, <1>2, <2>1, OtherPosts
<1>5. CounterHolds'
  <2>1. p \notin Counted
    BY <1>1 DEF Counted
  <2>2. Cardinality(Counted') = Cardinality(Counted) + 1 /\ Cardinality(Counted) \in Nat
    BY <1>1, <1>2, <2>1, OneCounted
  <2>3. \A q \in Posts : postPc[q] = "added" => readId[q] <= Cardinality(Counted)
    BY DEF FormInv, CounterHolds
  <2>4. next_id' <= Cardinality(Counted') /\ next_id' > 0
    BY <1>1, <2>2, <2>3
  <2>5. \A q \in Posts : postPc'[q] = "added" => readId'[q] <= Cardinality(Counted')
    <3>. SUFFICES ASSUME NEW q \in Posts, postPc'[q] = "added" PROVE readId'[q] <= Cardinality(Counted')
      OBVIOUS
    <3>1. postPc[q] = "added" /\ readId'[q] = readId[q] /\ readId[q] \in Nat
      BY <1>1, <1>2 DEF FormTypes
    <3>. QED  BY <2>2, <2>3, <3>1
  <2>. QED  BY <2>4, <2>5 DEF CounterHolds
<1>6. InTurn'
  <2>. SUFFICES ASSUME ~overlapped' PROVE InTurn'
    BY DEF InTurn
  <2>1. ~overlapped /\ p \in InHandler /\ InTurn
    BY <1>1 DEF InHandler, FormInv
  <2>2. InHandler' = InHandler /\ InHandler = {p}
    BY <1>1, <1>2, <2>1 DEF InHandler, InTurn
  <2>3. \A q \in Posts : (postPc[q] = "added" <=> q = p) /\ postPc[q] # "counted" /\ postPc'[q] # "added"
    BY <1>1, <1>2, <2>2 DEF InHandler
  <2>4. Given = next_id /\ readId[p] = next_id
    BY <1>1, <2>1, <2>3 DEF Given, InTurn
  <2>5. Given' = next_id
    BY <1>1, <1>2, <2>4 DEF Given
  <2>6. PlacedOrders' = PlacedOrders
    BY <1>1 DEF PlacedOrders
  <2>7. {response'[q].order : q \in PlacedOrders'} = 1 .. Given' /\ Cardinality(PlacedOrders') = Given'
    BY <1>1, <2>1, <2>4, <2>5, <2>6 DEF InTurn
  <2>. QED  BY <2>2, <2>3, <2>7 DEF InTurn
<1>. QED  BY <1>3, <1>4, <1>5, <1>6 DEF FormInv

LEMMA ReturnStep == ASSUME FormInv, NEW p \in Posts, ReturnOrder(p) PROVE FormInv'
<1>1. /\ FormTypes /\ (\A q \in Posts : PostHolds(q)) /\ PostHolds(p)
      /\ postPc[p] = "counted" /\ formTwin = "sync" /\ UNCHANGED <<formTwin, next_id, readId, overlapped>>
      /\ Answers(p, 201, {}, next_id) /\ next_id \in Nat /\ Orderly(p)
  BY DEF FormInv, ReturnOrder, FormTypes, PostHolds
<1>2. /\ postPc' \in [Posts -> {"posted", "valid", "added", "counted", "answered"}]
      /\ response' \in [Posts -> [status : {-1, 201, 422},
                             rules : {{}} \cup {BrokenRules[q] : q \in Posts}, order : Nat]]
      /\ postPc'[p] = "answered" /\ response'[p].status = 201 /\ response'[p].order = next_id
      /\ \A q \in Posts \ {p} : postPc'[q] = postPc[q] /\ response'[q] = response[q]
  <2>1. 201 \in {201, 422}
    OBVIOUS
  <2>. QED  BY <1>1, <2>1, AnswersAre
<1>3. next_id > 0
  BY <1>1 DEF FormInv, CounterHolds, Counted
<1>4. FormTypes'
  BY <1>1, <1>2 DEF FormTypes
<1>5. \A q \in Posts : PostHolds(q)'
  <2>1. PostHolds(p)'
    BY <1>1, <1>2, <1>3 DEF PostHolds, Orderly, Acceptable
  <2>. QED  BY <1>1, <1>2, <2>1, OtherPosts
<1>6. CounterHolds'
  <2>1. Counted' = Counted
    BY <1>1, <1>2 DEF Counted, Orderly, Acceptable
  <2>2. \A q \in Posts : postPc'[q] = "added" => postPc[q] = "added"
    BY <1>2
  <2>. QED  BY <1>1, <2>1, <2>2 DEF FormInv, CounterHolds
<1>7. InTurn'
  <2>. SUFFICES ASSUME ~overlapped' PROVE InTurn'
    BY DEF InTurn
  <2>1. ~overlapped /\ p \in InHandler /\ InTurn
    BY <1>1 DEF InHandler, FormInv
  <2>2. InHandler = {p} /\ InHandler' = {}
    BY <1>1, <1>2, <2>1 DEF InHandler, InTurn
  <2>3. \A q \in Posts : postPc'[q] # "counted" /\ postPc'[q] # "added"
    BY <1>2, <2>2 DEF InHandler
  <2>4. Given = next_id - 1 /\ Given' = next_id
    BY <1>1, <2>3 DEF Given
  <2>5. p \notin PlacedOrders
    BY <1>1 DEF PlacedOrders, PostHolds
  <2> DEFINE n == next_id - 1
  <2>6. n \in Nat /\ n + 1 = next_id
    BY <1>1, <1>3
  <2>7. {response[q].order : q \in PlacedOrders} = 1 .. n /\ Cardinality(PlacedOrders) = n
    BY <2>1, <2>4 DEF InTurn
  <2> HIDE DEF n
  <2>8. /\ {response'[q].order : q \in PlacedOrders'} = 1 .. n + 1
        /\ Cardinality(PlacedOrders') = n + 1
    BY <1>1, <1>2, <2>5, <2>6, <2>7, OnePlaced
  <2>. QED  BY <2>2, <2>3, <2>4, <2>6, <2>8 DEF InTurn
<1>. QED  BY <1>4, <1>5, <1>6, <1>7 DEF FormInv

LEMMA FormStep == FormInv /\ [FormNext]_formVars => FormInv'
<1>. SUFFICES ASSUME FormInv, [FormNext]_formVars PROVE FormInv'
  OBVIOUS
<1>1. ASSUME NEW p \in Posts, Post(p) PROVE FormInv'
  BY <1>1, UncountedStep, AsyncOrderStep DEF Post
<1>2. ASSUME NEW p \in Posts, Validate(p) PROVE FormInv'
  BY <1>2, UncountedStep DEF Validate, Orderly
<1>3. CASE UNCHANGED formVars
  <2>1. UNCHANGED <<formTwin, postPc, response, next_id, readId, overlapped>>
    BY <1>3 DEF formVars
  <2>2. Counted' = Counted /\ InHandler' = InHandler /\ PlacedOrders' = PlacedOrders /\ Given' = Given
    BY <2>1 DEF Counted, InHandler, PlacedOrders, Given, Orderly, Acceptable
  <2>3. FormTypes' /\ \A p \in Posts : PostHolds(p)'
    BY <2>1 DEF FormInv, FormTypes, PostHolds, Orderly, Acceptable
  <2>4. CounterHolds'
    BY <2>1, <2>2 DEF FormInv, CounterHolds
  <2>5. InTurn'
    BY <2>1, <2>2 DEF FormInv, InTurn
  <2>. QED  BY <2>3, <2>4, <2>5 DEF FormInv
<1>. QED  BY <1>1, <1>2, <1>3, ReadStep, WriteStep, ReturnStep DEF FormNext

LEMMA IdsFollowOrders == FormInv => IdsCountOrders
<1>. SUFFICES ASSUME FormInv PROVE IdsCountOrders
  OBVIOUS
<1>1. ASSUME ~overlapped, InHandler = {}
      PROVE  {response[p].order : p \in PlacedOrders} = 1 .. next_id /\ Cardinality(PlacedOrders) = next_id
  <2>1. Given = next_id
    BY <1>1 DEF Given, InHandler
  <2>. QED  BY <1>1, <2>1 DEF FormInv, InTurn
<1>2. next_id <= Cardinality({p \in Posts : Acceptable(p) /\ Route[p] = "orders"})
  <2> DEFINE S == {p \in Posts : Acceptable(p) /\ Route[p] = "orders"}
  <2>1. S \in SUBSET Posts /\ Counted \subseteq S
    BY DEF Counted, Orderly
  <2> HIDE DEF S
  <2>2. IsFiniteSet(S) /\ Cardinality(S) \in Nat
    BY <2>1, PostsFinite
  <2>3. Cardinality(Counted) <= Cardinality(S) /\ Cardinality(Counted) \in Nat
    BY <2>1, <2>2, FS_Subset, FS_CardinalityType
  <2>4. next_id <= Cardinality(Counted) /\ next_id \in Nat
    BY DEF FormInv, CounterHolds, FormTypes
  <2>5. next_id <= Cardinality(S)
    BY <2>2, <2>3, <2>4
  <2>. QED  BY <2>5 DEF S
<1>. QED  BY <1>1, <1>2 DEF IdsCountOrders

LEMMA FormTypesFollow == FormInv => FormTypeOK
<1>. SUFFICES ASSUME FormInv PROVE FormTypeOK
  OBVIOUS
<1>1. next_id \in 0 .. Cardinality(Posts)
  <2>1. Cardinality(Counted) <= Cardinality(Posts) /\ Cardinality(Counted) \in Nat
    BY PostsFinite DEF Counted
  <2>2. next_id <= Cardinality(Counted) /\ next_id \in Nat
    BY DEF FormInv, CounterHolds, FormTypes
  <2>3. Cardinality(Posts) \in Nat
    BY FormAssumption, FS_CardinalityType
  <2>. QED  BY <2>1, <2>2, <2>3
<1>2. \A p \in Posts : postPc[p] = "answered" <=> response[p].status \in {201, 422}
  BY DEF FormInv, FormTypes, PostHolds
<1>3. formTwin = "async" => readId = [p \in Posts |-> 0]
  BY DEF FormInv, FormTypes
<1>. QED  BY <1>1, <1>2, <1>3 DEF FormTypeOK

LEMMA AlwaysFormInv == FormSpec => []FormInv
  BY InitForm, FormStep, PTL DEF FormSpec

-----------------------------------------------------------------------------
(* MCExamples: a behavior of the examples is one of a single example, and  *)
(* the others stay where they were; so each invariant above is one of it.  *)
ExamplesInv ==
  /\ OrdersInv /\ TracedInv /\ VaultInv /\ ScopesInv
  /\ DeskInv /\ SignupInv /\ RateInv /\ FormInv

LEMMA ExamplesStart == MCInit => ExamplesInv
  BY InitOrders, InitTraced, VaultInitHolds, InitScopes, InitDesk, InitSignup, InitRate, InitForm
     DEF MCInit, ExamplesInv

LEMMA OneRuns ==
  ASSUME [MCNext]_<<app, apps>>
  PROVE  /\ [OrdersNext]_orderVars /\ [BoardNext]_boardVars /\ [VaultNext]_vaultVars
         /\ [ScopesNext]_scopesVars /\ [DeskNext]_deskVars /\ [SignupNext]_signupVars
         /\ [RateNext]_rateVars /\ [FormNext]_formVars
  BY DEF MCNext, Running, apps

LEMMA ExamplesStep == ExamplesInv /\ [MCNext]_<<app, apps>> => ExamplesInv'
<1>. SUFFICES ASSUME ExamplesInv, [MCNext]_<<app, apps>> PROVE ExamplesInv'
  OBVIOUS
<1>1. OrdersInv' /\ TracedInv'
  BY OneRuns, NextOrders, NextTraced DEF ExamplesInv
<1>2. VaultInv' /\ ScopesInv'
  BY OneRuns, VaultStepHolds, NextScopes DEF ExamplesInv
<1>3. DeskInv' /\ SignupInv'
  BY OneRuns, DeskStep, SignupStep DEF ExamplesInv
<1>4. RateInv' /\ FormInv'
  BY OneRuns, RateStep, FormStep DEF ExamplesInv
<1>. QED  BY <1>1, <1>2, <1>3, <1>4 DEF ExamplesInv

LEMMA AlwaysExamplesInv == MCSpec => []ExamplesInv
  BY ExamplesStart, ExamplesStep, PTL DEF MCSpec

LEMMA OrdersTypesFollow == OrdersInv => OrdersTypeOK
<1>. SUFFICES ASSUME OrdersInv PROVE OrdersTypeOK
  OBVIOUS
<1>1. OrderTypes
  BY DEF OrdersInv
<1>2. Cardinality(Purchases) \in Nat /\ Cardinality(Numbered) \in Nat
      /\ Cardinality(Numbered) <= Cardinality(Purchases)
  BY OrdersAssumption, FS_Subset, FS_CardinalityType DEF Numbered
<1>3. \A o \in Purchases : orderId[o] \in 0 .. Cardinality(Purchases)
  <2>. SUFFICES ASSUME NEW o \in Purchases PROVE orderId[o] \in 0 .. Cardinality(Purchases)
    OBVIOUS
  <2>1. orderId[o] \in Nat
    BY <1>1 DEF OrderTypes
  <2>2. orderId[o] > 0 => orderId[o] \in 1 .. Cardinality(Numbered)
    BY DEF OrdersInv, IdsFollow, Numbered
  <2>. QED  BY <1>2, <2>1, <2>2
<1>4. orderId \in [Purchases -> 0 .. Cardinality(Purchases)]
  BY <1>1, <1>3 DEF OrderTypes
<1>5. api = "sync" => Cardinality({o \in Purchases : place[o] \in {"waiting", "announcing"}}) <= 1
  <2> DEFINE S == {o \in Purchases : place[o] \in {"waiting", "announcing"}}
  <2>. SUFFICES ASSUME api = "sync" PROVE Cardinality(S) <= 1
    OBVIOUS
  <2>1. \A o, p \in S : o = p
    BY DEF OrdersInv, OneAtATime
  <2>2. CASE S = {}
    BY <2>2, FS_EmptySet
  <2>3. CASE S # {}
    <3>1. PICK o \in S : S = {o}
      BY <2>1, <2>3
    <3>. QED  BY <3>1, FS_Singleton
  <2>. QED  BY <2>2, <2>3
<1>. QED  BY <1>1, <1>4, <1>5 DEF OrdersTypeOK, OrderTypes, PlaceStates

(* The books, accounts, quotas and numbers of the small stores add up,     *)
(* whatever overlaps, fails or is cancelled: orders, charges and refunds   *)
(* (005), users and mails (110), calls and their limiters (045), order ids *)
(* (065).                                                                  *)
THEOREM StoresAlwaysAddUp == MCSpec => []StoresAddUp
<1>1. ExamplesInv => StoresAddUp
  <2>1. DeskInv => BooksBalance
    BY DEF DeskInv
  <2>2. SignupInv => SignupsKeepTheirUsers
    BY DEF SignupInv
  <2>. QED  BY <2>1, <2>2, QuotaFollows, IdsFollowOrders DEF ExamplesInv, StoresAddUp
<1>. QED  BY <1>1, AlwaysExamplesInv, PTL

(* Traces of the task board, unit-of-work logs and audit trails are the    *)
(* record of what happened: each marker stands in its bracket, and every   *)
(* dispatch and effect is accounted for once (040, 100, 005).              *)
THEOREM RecordsAreTrue == MCSpec => []RecordsTellWhatHappened
<1>1. ExamplesInv => RecordsTellWhatHappened
  BY TracesFollow, LogsFollow, TrailFollows DEF ExamplesInv, RecordsTellWhatHappened
<1>. QED  BY <1>1, AlwaysExamplesInv, PTL

(* The state of every example has its type, with the relations the types   *)
(* state: ids within their counters, one order at a time in the            *)
(* synchronous twin, answers of what has ended only.                       *)
THEOREM ExamplesAreTyped == MCSpec => []ExamplesTypeOK
<1>1. ExamplesInv => ExamplesTypeOK
  <2>1. VaultInv => VaultTypeOK
    BY DEF VaultInv
  <2>. QED  BY <2>1, OrdersTypesFollow, BoardTypesFollow, ScopesTypesFollow, DeskTypesFollow,
               SignupTypesFollow, RateTypesFollow, FormTypesFollow DEF ExamplesInv, ExamplesTypeOK
<1>. QED  BY <1>1, AlwaysExamplesInv, PTL
===============================================================================
