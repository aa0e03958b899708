----------------------------- MODULE OutboxProofs -----------------------------
(***************************************************************************)
(* Outbox implements ReadModel, for any number of commands, any batch size *)
(* and any number of crashes and database errors.                          *)
(*                                                                         *)
(* The read side's consistency is about whole prefixes of the outbox, but  *)
(* a batch is applied event by event and a command writes two tables one   *)
(* after the other, so the inductive invariant says what every open        *)
(* transaction holds at each of its steps.                                 *)
(***************************************************************************)
EXTENDS Outbox, DataLemmas

IsAFunction(f) == f = [x \in DOMAIN f |-> f[x]]

(* Ids are created once, and adjusted only afterwards.                     *)
WellFormed(log) ==
  \A i \in 1..Len(log) :
    IF log[i].type = "ProductCreated" THEN log[i].id \notin Mentioned(log, i - 1)
                                      ELSE log[i].id \in Mentioned(log, i - 1)

(* The event is what turned one products table into the other.             *)
Tells(event, before, after) ==
  /\ event \in Event
  /\ IF event.type = "ProductCreated"
     THEN /\ event.id = Len(before) + 1
          /\ after = Append(before, [price |-> event.price, stock |-> event.stock])
     ELSE /\ event.id \in 1..Len(before)
          /\ after = [before EXCEPT ![event.id] = [price |-> before[event.id].price, stock |-> event.stock]]

InTxn(c) == command[c] \in {"begun", "changed", "appended"}
TxnInv ==
  \A c \in Commands : InTxn(c) =>
    /\ txn \in Transaction /\ txn.of = c /\ worker # "draining"
    /\ command[c] = "begun" => txn.products = products /\ txn.outbox = outbox
    /\ command[c] = "changed" => txn.outbox = outbox /\ Tells(txn.event, products, txn.products)
    /\ command[c] = "appended" =>
         txn.outbox = Append(outbox, txn.event) /\ Tells(txn.event, products, txn.products)

BatchInv ==
  batch # None =>
    /\ worker = "draining" /\ NextBatch # <<>>
    /\ \E done \in 0 .. Len(NextBatch) :
         /\ batch = [view |-> batch.view, events |-> NextBatch, done |-> done]
         /\ Describes(batch.view, outbox, checkpoint + done) /\ Derived(batch.view)

Types ==
  /\ products \in Seq(Product) /\ outbox \in Seq(Event)
  /\ checkpoint \in 0 .. Len(outbox)
  /\ command \in [Commands -> CommandStates]

Consistent ==
  /\ WellFormed(outbox)
  /\ Describes(products, outbox, Len(outbox))
  /\ Describes(view, outbox, checkpoint) /\ Derived(view)

IInv == Types /\ Consistent /\ TxnInv /\ BatchInv

-----------------------------------------------------------------------------
(* Logs.                                                                   *)
LEMMA MentionedGrows ==
  ASSUME NEW log, NEW m \in Nat, NEW n \in Nat, m <= n
  PROVE  Mentioned(log, m) \subseteq Mentioned(log, n)
BY DEF Mentioned

LEMMA MentionedStep ==
  ASSUME NEW log, NEW n \in Nat
  PROVE  Mentioned(log, n + 1) =
           Mentioned(log, n) \cup (IF log[n + 1].type = "ProductCreated" THEN {log[n + 1].id} ELSE {})
<1>1. 1..n + 1 = 1..n \cup {n + 1}
  OBVIOUS
<1>. QED  BY <1>1 DEF Mentioned

(* In a well-formed log every event up to n is about a product mentioned.  *)
LEMMA EventMentioned ==
  ASSUME NEW log, WellFormed(log), Len(log) \in Nat, NEW n \in 0..Len(log), NEW i \in 1..n
  PROVE  log[i].id \in Mentioned(log, n)
<1>1. CASE log[i].type = "ProductCreated"
  BY <1>1 DEF Mentioned
<1>2. CASE log[i].type # "ProductCreated"
  <2>1. log[i].id \in Mentioned(log, i - 1)
    BY <1>2 DEF WellFormed
  <2>2. Mentioned(log, i - 1) \subseteq Mentioned(log, n)
    BY MentionedGrows
  <2>. QED  BY <2>1, <2>2
<1>. QED  BY <1>1, <1>2

(* What a log says about its first n events does not change when it grows. *)
LEMMA PrefixStays ==
  ASSUME NEW log \in Seq(Event), NEW e \in Event, NEW n \in 0..Len(log)
  PROVE  /\ Mentioned(Append(log, e), n) = Mentioned(log, n)
         /\ \A rows : Describes(rows, Append(log, e), n) <=> Describes(rows, log, n)
<1>1. \A i \in 1..n : Append(log, e)[i] = log[i]
  OBVIOUS
<1>2. Mentioned(Append(log, e), n) = Mentioned(log, n)
  BY <1>1 DEF Mentioned
<1>3. \A i \in 1..n : IsLast(Append(log, e), n, i) <=> IsLast(log, n, i)
  BY <1>1 DEF IsLast
<1>. QED  BY <1>1, <1>2, <1>3 DEF Describes

LEMMA StaysWellFormed ==
  ASSUME NEW log \in Seq(Event), WellFormed(log), NEW e \in Event,
         IF e.type = "ProductCreated" THEN e.id \notin Mentioned(log, Len(log))
                                      ELSE e.id \in Mentioned(log, Len(log))
  PROVE  WellFormed(Append(log, e))
<1>1. Len(Append(log, e)) = Len(log) + 1 /\ Append(log, e)[Len(log) + 1] = e
  OBVIOUS
<1>2. ASSUME NEW i \in 1 .. Len(log) + 1
      PROVE  Mentioned(Append(log, e), i - 1) = Mentioned(log, i - 1)
  BY <1>2, PrefixStays
<1>3. \A i \in 1..Len(log) : Append(log, e)[i] = log[i]
  OBVIOUS
<1>. QED  BY <1>1, <1>2, <1>3 DEF WellFormed

(* A table that describes n events describes n + 1 once it shows the       *)
(* product of event n + 1 with that event's stock and is otherwise kept.   *)
LEMMA DescribesNext ==
  ASSUME NEW log, WellFormed(log), Len(log) \in Nat, NEW n \in Nat, n < Len(log),
         NEW rows, Describes(rows, log, n), NEW rows2,
         DOMAIN rows2 = DOMAIN rows \cup {log[n + 1].id},
         rows2[log[n + 1].id].stock = log[n + 1].stock,
         rows2[log[n + 1].id].price = IF log[n + 1].type = "ProductCreated"
                                      THEN log[n + 1].price ELSE rows[log[n + 1].id].price,
         \A id \in DOMAIN rows : id # log[n + 1].id => rows2[id] = rows[id]
  PROVE  Describes(rows2, log, n + 1)
<1> DEFINE e == log[n + 1]
<1>1. IF e.type = "ProductCreated" THEN e.id \notin Mentioned(log, n) ELSE e.id \in Mentioned(log, n)
  BY DEF WellFormed
<1>2. DOMAIN rows2 = Mentioned(log, n + 1)
  BY <1>1, MentionedStep DEF Describes
<1>3. ASSUME NEW i \in 1..n PROVE log[i].id \in DOMAIN rows
  BY <1>3, EventMentioned DEF Describes
<1>4. ASSUME NEW i \in 1..n + 1, log[i].type = "ProductCreated"
      PROVE  rows2[log[i].id].price = log[i].price
  <2>1. CASE i = n + 1
    BY <2>1, <1>4
  <2>2. CASE i # n + 1
    <3>1. i \in 1..n /\ rows[log[i].id].price = log[i].price
      BY <2>2, <1>4 DEF Describes
    <3>2. CASE log[i].id = e.id
      <4>1. e.id \in Mentioned(log, n)
        BY <3>1, <3>2, <1>3 DEF Describes
      <4>. QED  BY <4>1, <1>1, <3>1, <3>2
    <3>3. CASE log[i].id # e.id
      BY <3>1, <3>3, <1>3
    <3>. QED  BY <3>2, <3>3
  <2>. QED  BY <2>1, <2>2
<1>5. ASSUME NEW i \in 1..n + 1, IsLast(log, n + 1, i)
      PROVE  rows2[log[i].id].stock = log[i].stock
  <2>1. CASE i = n + 1
    BY <2>1
  <2>2. CASE i # n + 1
    <3>1. i \in 1..n
      BY <2>2
    <3>2. IsLast(log, n, i) /\ log[i].id # e.id
      BY <3>1, <1>5 DEF IsLast
    <3>. QED  BY <3>1, <3>2, <1>3 DEF Describes
  <2>. QED  BY <2>1, <2>2
<1>. QED  BY <1>2, <1>4, <1>5 DEF Describes

-----------------------------------------------------------------------------
(* The write side: one event turns a table that describes the outbox into  *)
(* one that describes the outbox with that event at its end.               *)
LEMMA TellsDescribes ==
  ASSUME NEW log \in Seq(Event), WellFormed(log),
         NEW before \in Seq(Product), Describes(before, log, Len(log)),
         NEW after, NEW e, Tells(e, before, after)
  PROVE  /\ after \in Seq(Product)
         /\ WellFormed(Append(log, e))
         /\ Describes(after, Append(log, e), Len(log) + 1)
         /\ e.type = "ProductCreated" <=> e.id \notin DOMAIN before
<1> DEFINE new == Append(log, e)
<1>1. e \in Event /\ DOMAIN before = 1..Len(before) /\ Len(before) \in Nat
  BY DEF Tells
<1>2. e.type = "ProductCreated" <=> e.id \notin DOMAIN before
  BY <1>1 DEF Tells
<1>3. WellFormed(new)
  BY <1>1, <1>2, StaysWellFormed DEF Describes
<1>4. new \in Seq(Event) /\ Len(new) = Len(log) + 1 /\ new[Len(log) + 1] = e
  BY <1>1
<1>5. Describes(before, new, Len(log))
  BY <1>1, PrefixStays
<1>6. after \in Seq(Product)
  <2>1. CASE e.type = "ProductCreated"
    <3>1. [price |-> e.price, stock |-> e.stock] \in Product
      BY <2>1, <1>1 DEF Event, Product
    <3>. QED  BY <2>1, <3>1 DEF Tells
  <2>2. CASE e.type # "ProductCreated"
    <3>1. e.id \in 1..Len(before) /\ before[e.id] \in Product
      BY <2>2 DEF Tells
    <3>2. [price |-> before[e.id].price, stock |-> e.stock] \in Product
      BY <3>1, <1>1 DEF Event, Product
    <3>. QED  BY <2>2, <3>1, <3>2 DEF Tells
  <2>. QED  BY <2>1, <2>2
<1>7. /\ DOMAIN after = DOMAIN before \cup {e.id}
      /\ after[e.id].stock = e.stock
      /\ after[e.id].price = IF e.type = "ProductCreated" THEN e.price ELSE before[e.id].price
      /\ \A id \in DOMAIN before : id # e.id => after[id] = before[id]
  <2>1. CASE e.type = "ProductCreated"
    BY <2>1, <1>1 DEF Tells
  <2>2. CASE e.type # "ProductCreated"
    BY <2>2, <1>1 DEF Tells
  <2>. QED  BY <2>1, <2>2
<1>8. Describes(after, new, Len(log) + 1)
  <2>. HIDE DEF new
  <2>1. Len(log) \in Nat /\ Len(log) < Len(new) /\ Len(new) \in Nat
    BY <1>4
  <2>2. /\ DOMAIN after = DOMAIN before \cup {new[Len(log) + 1].id}
        /\ after[new[Len(log) + 1].id].stock = new[Len(log) + 1].stock
        /\ after[new[Len(log) + 1].id].price =
             IF new[Len(log) + 1].type = "ProductCreated"
             THEN new[Len(log) + 1].price ELSE before[new[Len(log) + 1].id].price
        /\ \A id \in DOMAIN before : id # new[Len(log) + 1].id => after[id] = before[id]
    BY <1>4, <1>7
  <2>. QED  BY <2>1, <2>2, <1>3, <1>5, DescribesNext
<1>. QED  BY <1>2, <1>3, <1>6, <1>8

(* The read side: applying an event writes its product's row and no other; *)
(* applying the next event shows one event more.                           *)
LEMMA ApplyRow ==
  ASSUME NEW e \in Event, NEW rows, Derived(rows),
         e.type = "ProductCreated" \/ e.id \in DOMAIN rows
  PROVE  LET rows2 == Apply(rows, e)
         IN  /\ DOMAIN rows2 = DOMAIN rows \cup {e.id} /\ IsAFunction(rows2)
             /\ rows2[e.id].stock = e.stock
             /\ rows2[e.id].price = IF e.type = "ProductCreated" THEN e.price ELSE rows[e.id].price
             /\ \A id \in DOMAIN rows : id # e.id => rows2[id] = rows[id]
             /\ Derived(rows2)
<1> DEFINE rows2 == Apply(rows, e)
<1>3. CASE e.type = "ProductCreated"
  <2> DEFINE row == Project([price |-> e.price, stock |-> e.stock])
  <2>1. rows2 = [i \in DOMAIN rows \cup {e.id} |-> IF i = e.id THEN row ELSE rows[i]]
    BY <1>3 DEF Apply, Upsert
  <2>2. row.stock = e.stock /\ row.price = e.price /\ row = Project(row)
    BY DEF Project
  <2>. HIDE DEF row, rows2
  <2>3. /\ DOMAIN rows2 = DOMAIN rows \cup {e.id} /\ IsAFunction(rows2)
        /\ rows2[e.id] = row
        /\ \A id \in DOMAIN rows : id # e.id => rows2[id] = rows[id]
    BY <2>1 DEF IsAFunction
  <2>4. Derived(rows2)
    BY <2>2, <2>3 DEF Derived
  <2>. QED  BY <2>2, <2>3, <2>4, <1>3 DEF rows2
<1>4. CASE e.type # "ProductCreated"
  <2> DEFINE row == [[rows[e.id] EXCEPT !.stock = e.stock] EXCEPT !.in_stock = e.stock > 0]
  <2>1. e.id \in DOMAIN rows /\ rows[e.id] = Project(rows[e.id])
    BY <1>4 DEF Derived
  <2>2. rows2 = [rows EXCEPT ![e.id] = row]
    BY <1>4, <2>1 DEF Apply
  <2>3. row.stock = e.stock /\ row.price = rows[e.id].price /\ row = Project(row)
    <3>1. PICK price, stock : rows[e.id] = [price |-> price, stock |-> stock, in_stock |-> stock > 0,
                                            price_tier |-> PriceTier(price)]
      BY <2>1 DEF Project
    <3>2. row = [price |-> price, stock |-> e.stock, in_stock |-> e.stock > 0,
                 price_tier |-> PriceTier(price)]
      <4> DEFINE half == [rows[e.id] EXCEPT !.stock = e.stock]
      <4>1. half = [price |-> price, stock |-> e.stock, in_stock |-> stock > 0,
                    price_tier |-> PriceTier(price)]
        BY <3>1
      <4>. HIDE DEF half
      <4>2. [half EXCEPT !.in_stock = e.stock > 0]
              = [price |-> price, stock |-> e.stock, in_stock |-> e.stock > 0,
                 price_tier |-> PriceTier(price)]
        BY <4>1
      <4>. QED  BY <4>2 DEF half
    <3>. HIDE DEF row
    <3>3. row.stock = e.stock /\ row.price = price /\ rows[e.id].price = price
      BY <3>1, <3>2
    <3>4. row = Project(row)
      BY <3>2 DEF Project
    <3>. QED  BY <3>3, <3>4
  <2>. HIDE DEF row, rows2
  <2>4. /\ DOMAIN rows2 = DOMAIN rows \cup {e.id} /\ IsAFunction(rows2)
        /\ rows2[e.id] = row
        /\ \A id \in DOMAIN rows : id # e.id => rows2[id] = rows[id]
    BY <2>1, <2>2 DEF IsAFunction
  <2>5. Derived(rows2)
    BY <2>3, <2>4 DEF Derived
  <2>. QED  BY <2>3, <2>4, <2>5, <1>4 DEF rows2
<1>. QED  BY <1>3, <1>4

LEMMA ApplyDescribes ==
  ASSUME NEW log \in Seq(Event), WellFormed(log), NEW n \in 0 .. Len(log) - 1,
         NEW rows, Describes(rows, log, n), Derived(rows)
  PROVE  /\ Describes(Apply(rows, log[n + 1]), log, n + 1)
         /\ Derived(Apply(rows, log[n + 1])) /\ IsAFunction(Apply(rows, log[n + 1]))
<1> DEFINE e == log[n + 1]
           rows2 == Apply(rows, e)
<1>1. e \in Event /\ Len(log) \in Nat /\ n + 1 \in 1..Len(log)
  OBVIOUS
<1>2. e.type = "ProductCreated" \/ e.id \in DOMAIN rows
  BY <1>1 DEF WellFormed, Describes
<1>3. /\ DOMAIN rows2 = DOMAIN rows \cup {e.id} /\ IsAFunction(rows2)
      /\ rows2[e.id].stock = e.stock
      /\ rows2[e.id].price = IF e.type = "ProductCreated" THEN e.price ELSE rows[e.id].price
      /\ \A id \in DOMAIN rows : id # e.id => rows2[id] = rows[id]
      /\ Derived(rows2)
  BY <1>1, <1>2, ApplyRow
<1>. HIDE DEF rows2
<1>4. Describes(rows2, log, n + 1)
  <2>1. n \in Nat /\ n < Len(log)
    BY <1>1
  <2>2. /\ DOMAIN rows2 = DOMAIN rows \cup {e.id}
        /\ \A id \in DOMAIN rows : id # e.id => rows2[id] = rows[id]
    BY <1>3
  <2>3. /\ rows2[e.id].stock = e.stock
        /\ rows2[e.id].price = IF e.type = "ProductCreated" THEN e.price ELSE rows[e.id].price
    BY <1>3
  <2>. QED  BY <1>1, <2>1, <2>2, <2>3, DescribesNext
<1>. QED  BY <1>3, <1>4 DEF rows2

(* A batch is the next rows of the outbox, at least one if there is one.   *)
LEMMA BatchIsNext ==
  ASSUME Types, BatchSize \in Nat \ {0}
  PROVE  /\ Len(NextBatch) \in 0 .. Len(outbox) - checkpoint
         /\ \A j \in 1..Len(NextBatch) : NextBatch[j] = outbox[checkpoint + j]
         /\ NextBatch # <<>> => Len(NextBatch) > 0
BY DEF NextBatch, Types

-----------------------------------------------------------------------------
(* The invariant.                                                          *)
LEMMA Initially == Init => IInv
<1>. SUFFICES ASSUME Init PROVE IInv
  OBVIOUS
<1>1. Types
  BY DEF Init, Types, CommandStates
<1>2. Consistent
  BY DEF Init, Consistent, WellFormed, Describes, Derived, Mentioned
<1>3. TxnInv /\ BatchInv
  BY DEF Init, TxnInv, InTxn, BatchInv
<1>. QED  BY <1>1, <1>2, <1>3 DEF IInv

(* While the event loop is free no command is inside its transaction, and  *)
(* while a command is, no other is and the worker does not drain.          *)
LEMMA OneAtATime ==
  ASSUME TxnInv
  PROVE  /\ txn = None => \A c \in Commands : ~InTxn(c)
         /\ \A c, d \in Commands : InTxn(c) /\ InTxn(d) => c = d
BY OutboxAssumption DEF TxnInv

LEMMA Frame ==
  ASSUME IInv, UNCHANGED durable
  PROVE  /\ Consistent' /\ NextBatch' = NextBatch
         /\ (products \in Seq(Product) /\ outbox \in Seq(Event) /\ checkpoint \in 0 .. Len(outbox))'
BY DEF IInv, Consistent, Types, durable, NextBatch

(* No transaction of the read side is touched.                             *)
LEMMA BatchFrame ==
  ASSUME IInv, UNCHANGED durable, UNCHANGED batch, worker = "draining" => worker' = "draining"
  PROVE  BatchInv'
BY Frame DEF IInv, BatchInv, durable

LEMMA BeginStep ==
  ASSUME IInv, NEW c \in Commands, Begin(c)
  PROVE  IInv'
<1>. USE DEF IInv, Begin, Goto
<1>1. Types' /\ Consistent'
  BY Frame DEF Types, CommandStates
<1>2. ASSUME NEW d \in Commands, InTxn(d)' PROVE d = c
  BY <1>2, OneAtATime DEF InTxn, LoopFree, Types
<1>3. txn' \in Transaction /\ txn'.of = c
  BY DEF Transaction, Types
<1>4. txn'.products = products /\ txn'.outbox = outbox /\ command'[c] = "begun"
  BY DEF Types
<1>5. TxnInv'
  BY <1>2, <1>3, <1>4 DEF TxnInv, LoopFree, durable, tasks
<1>6. BatchInv'
  BY BatchFrame DEF tasks
<1>. QED  BY <1>1, <1>5, <1>6

(* What a statement that changes one product leaves in the transaction.    *)
LEMMA ChangeStep ==
  ASSUME IInv, NEW c \in Commands, command[c] = "begun",
         NEW after \in Seq(Product), NEW event, Tells(event, products, after),
         txn' = [txn EXCEPT !.products = after, !.event = event], Goto(c, "changed"),
         UNCHANGED <<durable, batch, position, tasks, faults, crashes>>
  PROVE  IInv'
<1>. USE DEF IInv, Goto
<1>1. Types' /\ Consistent'
  BY Frame DEF Types, CommandStates
<1>2. InTxn(c) /\ txn \in Transaction /\ txn.of = c /\ txn.outbox = outbox /\ worker # "draining"
  BY DEF InTxn, TxnInv
<1>3. ASSUME NEW d \in Commands, InTxn(d)' PROVE d = c
  BY <1>2, <1>3, OneAtATime DEF InTxn, Types
<1>4. txn' = [of |-> c, products |-> after, outbox |-> outbox, event |-> event]
  <2> DEFINE half == [txn EXCEPT !.products = after]
  <2>1. half = [of |-> c, products |-> after, outbox |-> outbox, event |-> txn.event]
    BY <1>2 DEF Transaction
  <2>2. txn' = [half EXCEPT !.event = event]
    OBVIOUS
  <2>. HIDE DEF half
  <2>. QED  BY <2>1, <2>2
<1>5. txn' \in Transaction /\ command'[c] = "changed"
  BY <1>4 DEF Transaction, Tells, Types
<1>6. TxnInv'
  BY <1>2, <1>3, <1>4, <1>5 DEF TxnInv, durable, tasks
<1>7. BatchInv'
  BY BatchFrame DEF tasks
<1>. QED  BY <1>1, <1>6, <1>7

LEMMA InsertStep ==
  ASSUME IInv, NEW c \in Commands, NEW price \in Prices, NEW stock \in Stocks,
         InsertProduct(c, price, stock)
  PROVE  IInv'
<1> DEFINE event == Created(Len(products) + 1, price, stock)
           after == Append(products, [price |-> price, stock |-> stock])
<1>1. txn.products = products /\ products \in Seq(Product)
  BY DEF IInv, TxnInv, InTxn, InsertProduct, Types
<1>2. price \in Int /\ stock \in Int
  BY OutboxAssumption
<1>3. after \in Seq(Product)
  BY <1>1, <1>2 DEF Product
<1>4. Tells(event, products, after)
  BY <1>1, <1>2 DEF Tells, Created, Event
<1>5. txn' = [txn EXCEPT !.products = after, !.event = event]
  BY <1>1 DEF InsertProduct
<1>. HIDE DEF event, after
<1>. QED  BY <1>3, <1>4, <1>5, ChangeStep DEF InsertProduct

LEMMA UpdateStep ==
  ASSUME IInv, NEW c \in Commands, NEW id \in DOMAIN products, NEW delta \in Deltas,
         UpdateStock(c, id, delta)
  PROVE  IInv'
<1> DEFINE stock == products[id].stock + delta
           event == Adjusted(id, stock)
           row   == [price |-> products[id].price, stock |-> stock]
           after == [products EXCEPT ![id] = row]
<1>1. txn.products = products /\ products \in Seq(Product) /\ id \in 1 .. Len(products)
  BY DEF IInv, TxnInv, InTxn, UpdateStock, Types
<1>2. products[id] \in Product /\ delta \in Int
  BY <1>1, OutboxAssumption
<1>3. stock \in Int /\ row \in Product
  BY <1>2 DEF Product
<1>4. after \in Seq(Product)
  BY <1>1, <1>3
<1>5. Tells(event, products, after)
  <2>. HIDE DEF stock
  <2>1. event \in Event /\ event.type = "StockAdjusted" /\ event.id = id /\ event.stock = stock
    BY <1>1, <1>3 DEF Adjusted, Event
  <2>. HIDE DEF event
  <2>. QED  BY <1>1, <2>1 DEF Tells
<1>6. row = [products[id] EXCEPT !.stock = stock]
  BY <1>2 DEF Product
<1>7. after = [products EXCEPT ![id].stock = stock]
  BY <1>6
<1>8. txn' = [txn EXCEPT !.products = after, !.event = event]
  BY <1>1, <1>7 DEF UpdateStock
<1>. HIDE DEF event, after
<1>. QED  BY <1>4, <1>5, <1>8, ChangeStep DEF UpdateStock

LEMMA AppendStep ==
  ASSUME IInv, NEW c \in Commands, AppendOutbox(c)
  PROVE  IInv'
<1>. USE DEF IInv, AppendOutbox, Goto
<1>1. Types' /\ Consistent'
  BY Frame DEF Types, CommandStates
<1>2. /\ InTxn(c) /\ txn \in Transaction /\ txn.of = c /\ worker # "draining"
      /\ txn.outbox = outbox /\ Tells(txn.event, products, txn.products)
  BY DEF InTxn, TxnInv
<1>3. ASSUME NEW d \in Commands, InTxn(d)' PROVE d = c
  BY <1>2, <1>3, OneAtATime DEF InTxn, Types
<1>4. txn' = [of |-> c, products |-> txn.products, outbox |-> Append(outbox, txn.event),
              event |-> txn.event]
  BY <1>2 DEF Transaction
<1>5. Append(outbox, txn.event) \in Seq(Event)
  BY <1>2 DEF Tells, Types
<1>6. txn' \in Transaction /\ command'[c] = "appended"
  BY <1>2, <1>4, <1>5 DEF Transaction, Types
<1>7. TxnInv'
  BY <1>2, <1>3, <1>4, <1>6 DEF TxnInv, durable, tasks
<1>8. BatchInv'
  BY BatchFrame DEF tasks
<1>. QED  BY <1>1, <1>7, <1>8

(* COMMIT: both tables move on by the one event of the transaction.        *)
LEMMA CommitEffect ==
  ASSUME IInv, NEW c \in Commands, Commit(c)
  PROVE  \E e \in Event :
           /\ outbox' = Append(outbox, e) /\ Tells(e, products, products')
           /\ checkpoint' = checkpoint /\ view' = view
           /\ worker # "draining" /\ batch = None
<1>1. /\ txn.outbox = Append(outbox, txn.event) /\ Tells(txn.event, products, txn.products)
      /\ worker # "draining"
  BY DEF IInv, TxnInv, InTxn, Commit
<1>2. batch = None
  BY <1>1 DEF IInv, BatchInv
<1>. QED  BY <1>1, <1>2 DEF Commit, Tells, duckdb

LEMMA CommitStep ==
  ASSUME IInv, NEW c \in Commands, Commit(c)
  PROVE  IInv'
<1>1. PICK e \in Event :
        /\ outbox' = Append(outbox, e) /\ Tells(e, products, products')
        /\ checkpoint' = checkpoint /\ view' = view
        /\ worker # "draining" /\ batch = None
  BY CommitEffect
<1>2. /\ products \in Seq(Product) /\ outbox \in Seq(Event) /\ checkpoint \in 0 .. Len(outbox)
      /\ WellFormed(outbox) /\ Describes(products, outbox, Len(outbox))
      /\ Describes(view, outbox, checkpoint) /\ Derived(view)
      /\ command \in [Commands -> CommandStates] /\ InTxn(c)
  BY DEF IInv, Types, Consistent, InTxn, Commit
<1>3. Len(outbox') = Len(outbox) + 1 /\ outbox' \in Seq(Event)
  BY <1>1, <1>2
<1>4. /\ products' \in Seq(Product) /\ WellFormed(outbox')
      /\ Describes(products', outbox', Len(outbox'))
  <2>1. /\ products' \in Seq(Product) /\ WellFormed(Append(outbox, e))
        /\ Describes(products', Append(outbox, e), Len(outbox) + 1)
    BY <1>1, <1>2, TellsDescribes
  <2>. QED  BY <2>1, <1>1, <1>3
<1>5. Describes(view', outbox', checkpoint') /\ Derived(view')
  BY <1>1, <1>2, PrefixStays
<1>6. Types' /\ Consistent'
  BY <1>1, <1>2, <1>3, <1>4, <1>5 DEF Types, Consistent, Commit, Goto, CommandStates
<1>7. TxnInv'
  <2>1. \A d \in Commands : ~InTxn(d)'
    BY <1>2, OneAtATime DEF IInv, InTxn, Commit, Goto
  <2>. QED  BY <2>1 DEF TxnInv
<1>8. BatchInv'
  BY <1>1 DEF Commit, duckdb, BatchInv
<1>. QED  BY <1>6, <1>7, <1>8 DEF IInv

LEMMA RollbackStep ==
  ASSUME IInv, NEW c \in Commands, UpdateMissing(c) \/ WriteFails(c)
  PROVE  IInv'
<1>. USE DEF UpdateMissing, WriteFails, Rollback, Goto
<1>1. Types' /\ Consistent'
  BY Frame DEF IInv, Types, CommandStates
<1>2. InTxn(c) /\ command \in [Commands -> CommandStates]
  BY DEF InTxn, IInv, Types
<1>3. \A d \in Commands : ~InTxn(d)'
  BY <1>2, OneAtATime DEF IInv, InTxn
<1>4. TxnInv'
  BY <1>3 DEF TxnInv
<1>5. BatchInv'
  BY BatchFrame DEF tasks
<1>. QED  BY <1>1, <1>4, <1>5 DEF IInv

(* Steps of the event loop and of the caller: no transaction is open.      *)
LEMMA LoopStep ==
  ASSUME IInv, LoopFree, UNCHANGED durable, UNCHANGED batch,
         command' \in [Commands -> CommandStates], \A c \in Commands : InTxn(c)' => InTxn(c)
  PROVE  IInv'
<1>1. Types' /\ Consistent'
  BY Frame DEF IInv, Types
<1>2. \A c \in Commands : ~InTxn(c)'
  BY OneAtATime DEF IInv, LoopFree
<1>3. TxnInv'
  BY <1>2 DEF TxnInv
<1>4. BatchInv'
  BY BatchFrame DEF LoopFree
<1>. QED  BY <1>1, <1>3, <1>4 DEF IInv

LEMMA CallerStep ==
  ASSUME IInv, NEW c \in Commands,
         Notify(c) \/ Abandon(c) \/ WaitReturns(c) \/ WaitTimesOut(c)
  PROVE  IInv'
<1>. USE DEF Notify, Abandon, WaitReturns, WaitTimesOut, Goto
<1>1. LoopFree /\ UNCHANGED durable /\ UNCHANGED batch
  OBVIOUS
<1>2. command' \in [Commands -> CommandStates]
  BY DEF IInv, Types, CommandStates
<1>3. \A d \in Commands : InTxn(d)' => InTxn(d)
  BY DEF IInv, Types, InTxn
<1>. QED  BY <1>1, <1>2, <1>3, LoopStep

LEMMA WorkerStep ==
  ASSUME IInv, RunBegins \/ WaitEnds \/ Stop
  PROVE  IInv'
<1>. USE DEF RunBegins, WaitEnds, Stop, commands
<1>1. LoopFree /\ UNCHANGED durable /\ UNCHANGED batch
  OBVIOUS
<1>2. command' \in [Commands -> CommandStates]
  BY DEF IInv, Types
<1>3. \A d \in Commands : InTxn(d)' => InTxn(d)
  BY DEF InTxn
<1>. QED  BY <1>1, <1>2, <1>3, LoopStep

(* Steps of a drain: no command is inside its transaction.                 *)
LEMMA DrainFrame ==
  ASSUME IInv, worker = "draining", UNCHANGED command
  PROVE  TxnInv' /\ (command \in [Commands -> CommandStates])'
BY DEF IInv, TxnInv, InTxn, Types

LEMMA BeginBatchStep ==
  ASSUME IInv, BeginBatch
  PROVE  IInv'
<1>1. TxnInv' /\ Types' /\ Consistent' /\ NextBatch' = NextBatch
  BY Frame, DrainFrame DEF BeginBatch, commands, Types
<1>2. batch' = [view |-> view, events |-> NextBatch, done |-> 0]
  BY DEF BeginBatch
<1>3. /\ 0 \in 0 .. Len(NextBatch) /\ checkpoint \in Nat
      /\ Describes(view, outbox, checkpoint) /\ Derived(view)
  BY OutboxAssumption, BatchIsNext DEF IInv, Types, Consistent
<1>4. BatchInv'
  <2>1. batch'.view = view /\ worker' = "draining" /\ NextBatch # <<>>
        /\ outbox' = outbox /\ checkpoint' = checkpoint /\ checkpoint + 0 = checkpoint
    BY <1>2, <1>3 DEF BeginBatch, durable, tasks
  <2>. QED  BY <1>1, <1>2, <1>3, <2>1 DEF BatchInv
<1>. QED  BY <1>1, <1>4 DEF IInv

LEMMA ApplyStep ==
  ASSUME IInv, ApplyEvent
  PROVE  IInv'
<1>1. TxnInv' /\ Types' /\ Consistent' /\ NextBatch' = NextBatch
  BY Frame, DrainFrame DEF ApplyEvent, InBatch, commands, Types
<1>2. PICK done \in 0 .. Len(NextBatch) :
        /\ batch = [view |-> batch.view, events |-> NextBatch, done |-> done]
        /\ Describes(batch.view, outbox, checkpoint + done) /\ Derived(batch.view)
  BY DEF IInv, BatchInv, ApplyEvent, InBatch
<1> DEFINE event == NextBatch[done + 1]
           after == Apply(batch.view, event)
<1>3. batch.events = NextBatch /\ batch.done = done
  BY <1>2
<1>4. /\ done + 1 \in 1 .. Len(NextBatch)
      /\ checkpoint + done \in 0 .. Len(outbox) - 1 /\ checkpoint \in Nat /\ done \in Nat
      /\ event = outbox[(checkpoint + done) + 1]
  <2>1. Len(NextBatch) - done > 0
    BY <1>3 DEF ApplyEvent, Remaining
  <2>. QED  BY <2>1, OutboxAssumption, BatchIsNext DEF IInv, Types
<1>5. batch' = [view |-> after, events |-> NextBatch, done |-> done + 1]
  <2> DEFINE half == [batch EXCEPT !.view = after]
  <2>1. half = [view |-> after, events |-> NextBatch, done |-> done]
    BY <1>2
  <2>2. batch' = [half EXCEPT !.done = done + 1]
    BY <1>3 DEF ApplyEvent
  <2>. HIDE DEF half
  <2>. QED  BY <2>1, <2>2
<1>6. Describes(after, outbox, (checkpoint + done) + 1) /\ Derived(after)
  BY <1>2, <1>4, ApplyDescribes DEF IInv, Types, Consistent
<1>. HIDE DEF after, event
<1>7. BatchInv'
  <2>1. /\ batch'.view = after /\ worker' = "draining" /\ NextBatch # <<>>
        /\ outbox' = outbox /\ checkpoint' = checkpoint
        /\ (checkpoint + done) + 1 = checkpoint + (done + 1)
    <3>1. batch'.view = after /\ (checkpoint + done) + 1 = checkpoint + (done + 1)
      BY <1>4, <1>5
    <3>2. NextBatch # <<>>
      BY DEF ApplyEvent, InBatch, IInv, BatchInv
    <3>3. worker' = "draining" /\ outbox' = outbox /\ checkpoint' = checkpoint
      BY DEF ApplyEvent, InBatch, durable, tasks
    <3>. QED  BY <3>1, <3>2, <3>3
  <2>. QED  BY <1>1, <1>4, <1>5, <1>6, <2>1 DEF BatchInv
<1>. QED  BY <1>1, <1>7 DEF IInv

(* COMMIT of a batch: the views and the checkpoint move on together.       *)
LEMMA CommitBatchEffect ==
  ASSUME IInv, CommitBatch
  PROVE  /\ checkpoint' \in checkpoint + 1 .. Len(outbox)
         /\ Describes(view', outbox, checkpoint') /\ Derived(view')
         /\ outbox' = outbox /\ products' = products
<1>1. PICK done \in 0 .. Len(NextBatch) :
        /\ batch = [view |-> batch.view, events |-> NextBatch, done |-> done]
        /\ Describes(batch.view, outbox, checkpoint + done) /\ Derived(batch.view)
  BY DEF IInv, BatchInv, CommitBatch, InBatch
<1>2. batch.events = NextBatch /\ batch.done = done
  BY <1>1
<1>3. Len(NextBatch) \in 0 .. Len(outbox) - checkpoint /\ Len(NextBatch) > 0
  BY OutboxAssumption, BatchIsNext DEF IInv, BatchInv, CommitBatch, InBatch
<1>4. done = Len(NextBatch)
  BY <1>2, <1>3 DEF CommitBatch, Remaining
<1>5. view' = batch.view /\ checkpoint' = checkpoint + done
  BY <1>2, <1>4 DEF CommitBatch
<1>6. checkpoint' \in checkpoint + 1 .. Len(outbox)
  BY <1>3, <1>4, <1>5 DEF IInv, Types
<1>. QED  BY <1>1, <1>5, <1>6 DEF CommitBatch, sqlite

LEMMA CommitBatchStep ==
  ASSUME IInv, CommitBatch
  PROVE  IInv'
<1>1. TxnInv' /\ (command \in [Commands -> CommandStates])'
  BY DrainFrame DEF CommitBatch, InBatch, commands
<1>2. Types' /\ Consistent'
  BY <1>1, CommitBatchEffect DEF IInv, Types, Consistent
<1>3. BatchInv'
  BY DEF CommitBatch, BatchInv
<1>. QED  BY <1>1, <1>2, <1>3 DEF IInv

LEMMA DrainEndsStep ==
  ASSUME IInv, DrainReturns \/ BatchFails
  PROVE  IInv'
<1>1. TxnInv' /\ Types' /\ Consistent'
  BY Frame, DrainFrame DEF DrainReturns, BatchFails, InBatch, commands, Types
<1>2. BatchInv'
  BY DEF DrainReturns, BatchFails, BatchInv
<1>. QED  BY <1>1, <1>2 DEF IInv

(* Whatever was open is gone, and what was committed is untouched.         *)
LEMMA CrashStep ==
  ASSUME IInv, CrashAndRestart
  PROVE  IInv'
<1>1. Types' /\ Consistent'
  BY Frame DEF CrashAndRestart, Types, CommandStates
<1>2. TxnInv' /\ BatchInv'
  BY DEF CrashAndRestart, TxnInv, BatchInv, InTxn
<1>. QED  BY <1>1, <1>2 DEF IInv

LEMMA StutterStep ==
  ASSUME IInv, UNCHANGED vars
  PROVE  IInv'
<1>1. Types' /\ Consistent'
  BY Frame DEF vars, commands, IInv, Types
<1>2. TxnInv'
  BY DEF IInv, TxnInv, InTxn, vars, durable, commands, tasks
<1>3. BatchInv'
  BY BatchFrame DEF vars, tasks
<1>. QED  BY <1>1, <1>2, <1>3 DEF IInv

LEMMA Inductive == IInv /\ [Next]_vars => IInv'
<1>. SUFFICES ASSUME IInv, [Next]_vars PROVE IInv'
  OBVIOUS
<1>1. CASE \E c \in Commands : Write(c)
  BY <1>1, BeginStep, InsertStep, UpdateStep, AppendStep, CommitStep, RollbackStep DEF Write
<1>2. CASE \E c \in Commands : WriteFails(c)
  BY <1>2, RollbackStep
<1>3. CASE \E c \in Commands : Notify(c) \/ Abandon(c) \/ WaitReturns(c) \/ WaitTimesOut(c)
  BY <1>3, CallerStep
<1>4. CASE Work
  BY <1>4, WorkerStep, BeginBatchStep, ApplyStep, CommitBatchStep, DrainEndsStep DEF Work
<1>5. CASE BatchFails \/ Stop \/ CrashAndRestart
  BY <1>5, DrainEndsStep, WorkerStep, CrashStep
<1>6. CASE UNCHANGED vars
  BY <1>6, StutterStep
<1>. QED  BY <1>1, <1>2, <1>3, <1>4, <1>5, <1>6 DEF Next

(* Whatever fails or crashes, the products table is what the outbox says   *)
(* and the views are what its first `checkpoint` rows say; a transaction   *)
(* that is open holds what its statements have done so far.                *)
THEOREM AlwaysConsistent == Spec => []IInv
BY Initially, Inductive, PTL DEF Spec

-----------------------------------------------------------------------------
(* The refinement: COMMIT of a command commits the event, COMMIT of a      *)
(* batch advances the read side, and every other step changes nothing that *)
(* a reader of either database sees.                                       *)
LEMMA CommitPromised ==
  ASSUME IInv, NEW c \in Commands, Commit(c)
  PROVE  Promise!Commit
<1>1. PICK e \in Event :
        /\ outbox' = Append(outbox, e) /\ Tells(e, products, products')
        /\ checkpoint' = checkpoint /\ view' = view
        /\ worker # "draining" /\ batch = None
  BY CommitEffect
<1>2. /\ products \in Seq(Product) /\ outbox \in Seq(Event)
      /\ WellFormed(outbox) /\ Describes(products, outbox, Len(outbox))
  BY DEF IInv, Types, Consistent
<1>3. /\ Describes(products', Append(outbox, e), Len(outbox) + 1)
      /\ e.type = "ProductCreated" <=> e.id \notin DOMAIN products
  BY <1>1, <1>2, TellsDescribes
<1>4. /\ Len(outbox') = Len(outbox) + 1 /\ outbox'[Len(outbox')] = e
      /\ outbox = SubSeq(outbox', 1, Len(outbox))
  BY <1>1, <1>2
<1>. QED  BY <1>1, <1>3, <1>4 DEF Promise!Commit, Promise!Describes, Describes,
          Promise!Mentioned, Mentioned, Promise!IsLast, IsLast

LEMMA AdvancePromised ==
  ASSUME IInv, CommitBatch
  PROVE  Promise!Advance
BY CommitBatchEffect DEF Promise!Advance, Promise!Describes, Describes, Promise!Mentioned,
   Mentioned, Promise!IsLast, IsLast, Promise!Derived, Derived, Promise!Project, Project,
   Promise!PriceTier, PriceTier

LEMMA StepPromised ==
  ASSUME IInv, [Next]_vars
  PROVE  [Promise!Next]_(Promise!vars)
<1>1. CASE \E c \in Commands : Commit(c)
  BY <1>1, CommitPromised DEF Promise!Next
<1>2. CASE CommitBatch
  BY <1>2, AdvancePromised DEF Promise!Next
<1>3. CASE UNCHANGED durable
  BY <1>3 DEF durable, Promise!vars
<1>4. CASE \E c \in Commands : Write(c) /\ ~Commit(c)
  <2>1. UNCHANGED durable
    BY <1>4 DEF Write, Begin, AppendOutbox, UpdateMissing, Rollback, InsertProduct, UpdateStock
  <2>. QED  BY <2>1, <1>3
<1>5. CASE \E c \in Commands :
             WriteFails(c) \/ Notify(c) \/ Abandon(c) \/ WaitReturns(c) \/ WaitTimesOut(c)
  <2>1. UNCHANGED durable
    BY <1>5 DEF WriteFails, Rollback, Notify, Abandon, WaitReturns, WaitTimesOut
  <2>. QED  BY <2>1, <1>3
<1>6. CASE Work /\ ~CommitBatch
  <2>1. UNCHANGED durable
    BY <1>6 DEF Work, RunBegins, BeginBatch, ApplyEvent, DrainReturns, WaitEnds
  <2>. QED  BY <2>1, <1>3
<1>7. CASE BatchFails \/ Stop \/ CrashAndRestart \/ UNCHANGED vars
  <2>1. UNCHANGED durable
    BY <1>7 DEF BatchFails, Stop, CrashAndRestart, vars
  <2>. QED  BY <2>1, <1>3
<1>. QED  BY <1>1, <1>2, <1>4, <1>5, <1>6, <1>7 DEF Next

(* The promise of docs/architecture.md, kept by every interleaving, error  *)
(* and crash: one history of events, a write side that is all of it and a  *)
(* read side that is a prefix of it.                                       *)
THEOREM Implements == Spec => ImplementsReadModel
<1>1. Init => Promise!Init
  BY DEF Init, Promise!Init
<1>. QED  BY <1>1, AlwaysConsistent, StepPromised, PTL DEF Spec, ImplementsReadModel, Promise!Spec

-----------------------------------------------------------------------------
(* Reading one's own writes.                                               *)
(* Whatever product an event is about, some event is the last about it.    *)
LEMMA SomeIsLast ==
  ASSUME NEW log, NEW n \in Nat, NEW i \in 1..n
  PROVE  \E j \in i..n : log[j].id = log[i].id /\ IsLast(log, n, j)
<1> DEFINE S == {k \in 0 .. n - i : log[n - k].id = log[i].id}
<1>1. S \in SUBSET Nat /\ n - i \in S
  OBVIOUS
<1>2. PICK k \in S : \A l \in S : k <= l
  BY <1>1, Least
<1>3. n - k \in i..n /\ log[n - k].id = log[i].id
  BY <1>2
<1>4. ASSUME NEW j \in n - k + 1 .. n PROVE log[j].id # log[n - k].id
  <2>1. n - j \in 0 .. n - i /\ n - (n - j) = j /\ ~(k <= n - j)
    BY <1>3, <1>4
  <2>. QED  BY <1>2, <1>3, <2>1
<1>. QED  BY <1>3, <1>4 DEF IsLast

(* A command that committed has its event in the outbox, and one that was  *)
(* told so has it on the read side.                                        *)
Waits(c) ==
  /\ position[c] \in Nat
  /\ command[c] \in {"publishing", "returned", "caughtup"} => position[c] \in 1 .. Len(outbox)
  /\ command[c] = "caughtup" => position[c] <= checkpoint
WaitInv == position \in [Commands -> Nat] /\ \A c \in Commands : Waits(c)

LEMMA StepWaits == IInv /\ WaitInv /\ [Next]_vars => WaitInv'
<1>. SUFFICES ASSUME IInv, WaitInv, [Next]_vars PROVE WaitInv'
  OBVIOUS
<1>1. /\ outbox \in Seq(Event) /\ Len(outbox) \in Nat /\ checkpoint \in 0 .. Len(outbox)
      /\ command \in [Commands -> CommandStates]
  BY DEF IInv, Types
<1>2. ASSUME position' = position, Len(outbox') = Len(outbox), checkpoint' \in checkpoint .. Len(outbox),
             \A d \in Commands : \/ command'[d] = command[d]
                                 \/ command'[d] \notin {"publishing", "returned", "caughtup"}
                                 \/ command[d] = "publishing" /\ command'[d] = "returned"
                                 \/ command[d] = "returned" /\ command'[d] = "caughtup" /\ CaughtUp(d)
      PROVE  WaitInv'
  BY <1>1, <1>2 DEF WaitInv, Waits, CaughtUp
<1>3. ASSUME NEW c \in Commands, Commit(c) PROVE WaitInv'
  <2>1. Len(outbox') = Len(outbox) + 1 /\ checkpoint' = checkpoint
    <3>1. PICK e \in Event : outbox' = Append(outbox, e) /\ checkpoint' = checkpoint
      BY <1>3, CommitEffect
    <3>. QED  BY <1>1, <3>1
  <2>2. /\ position' = [position EXCEPT ![c] = Len(outbox')]
        /\ command' = [command EXCEPT ![c] = "publishing"]
    BY <1>3 DEF Commit, Goto
  <2>. QED  BY <1>1, <2>1, <2>2 DEF WaitInv, Waits
<1>4. ASSUME NEW c \in Commands, UNCHANGED <<outbox, checkpoint, position>>, NEW state, Goto(c, state),
             \/ state \notin {"publishing", "returned", "caughtup"}
             \/ command[c] = "publishing" /\ state = "returned"
             \/ command[c] = "returned" /\ state = "caughtup" /\ CaughtUp(c)
      PROVE  WaitInv'
  <2>1. \A d \in Commands : command'[d] = IF d = c THEN state ELSE command[d]
    BY <1>1, <1>4 DEF Goto
  <2>. QED  BY <1>1, <1>2, <1>4, <2>1
<1>5. CASE \E c \in Commands :
             \/ Begin(c) \/ AppendOutbox(c) \/ UpdateMissing(c) \/ WriteFails(c)
             \/ \E price \in Prices, stock \in Stocks : InsertProduct(c, price, stock)
             \/ \E id \in DOMAIN products, delta \in Deltas : UpdateStock(c, id, delta)
  BY <1>4, <1>5 DEF Begin, AppendOutbox, UpdateMissing, WriteFails, Rollback, InsertProduct, UpdateStock, durable
<1>6. CASE \E c \in Commands : Notify(c) \/ Abandon(c) \/ WaitReturns(c) \/ WaitTimesOut(c)
  BY <1>4, <1>6 DEF Notify, Abandon, WaitReturns, WaitTimesOut, durable
<1>7. CASE CommitBatch
  <2>1. checkpoint' \in checkpoint .. Len(outbox) /\ outbox' = outbox
    BY <1>1, <1>7, CommitBatchEffect
  <2>. QED  BY <1>2, <1>7, <2>1 DEF CommitBatch, commands
<1>8. CASE \/ RunBegins \/ BeginBatch \/ ApplyEvent \/ DrainReturns \/ WaitEnds \/ BatchFails \/ Stop
           \/ UNCHANGED vars
  <2>1. UNCHANGED <<outbox, checkpoint, position, command>>
    BY <1>8 DEF RunBegins, BeginBatch, ApplyEvent, DrainReturns, WaitEnds, BatchFails, Stop, vars, durable, commands
  <2>. QED  BY <1>1, <1>2, <2>1
<1>9. CASE CrashAndRestart
  BY <1>1, <1>2, <1>9 DEF CrashAndRestart, durable
<1>. QED  BY <1>3, <1>5, <1>6, <1>7, <1>8, <1>9 DEF Next, Write, Work

(* A caller that waited until the read model caught up finds its product   *)
(* there, with the stock that its write or a later one left.               *)
THEOREM WritesAreRead == Spec => []ReadYourWrites
<1>1. Init => WaitInv
  BY DEF Init, WaitInv, Waits
<1>2. IInv /\ WaitInv => ReadYourWrites
  <2>. SUFFICES ASSUME IInv, WaitInv, NEW c \in Commands, command[c] = "caughtup"
                PROVE  LET id == outbox[position[c]].id
                       IN  /\ id \in DOMAIN view
                           /\ \E i \in position[c] .. Len(outbox) :
                                outbox[i].id = id /\ view[id].stock = outbox[i].stock
    BY DEF ReadYourWrites
  <2>1. /\ outbox \in Seq(Event) /\ Len(outbox) \in Nat /\ checkpoint \in 0 .. Len(outbox)
        /\ WellFormed(outbox) /\ Describes(view, outbox, checkpoint)
    BY DEF IInv, Types, Consistent
  <2>2. position[c] \in 1 .. checkpoint
    BY <2>1 DEF WaitInv, Waits
  <2>3. PICK i \in position[c] .. checkpoint :
          outbox[i].id = outbox[position[c]].id /\ IsLast(outbox, checkpoint, i)
    <3>1. checkpoint \in Nat
      BY <2>1
    <3>. QED  BY <2>2, <3>1, SomeIsLast, Zenon
  <2>4. outbox[position[c]].id \in DOMAIN view
    BY <2>1, <2>2, EventMentioned DEF Describes
  <2>5. view[outbox[i].id].stock = outbox[i].stock /\ i \in position[c] .. Len(outbox)
    BY <2>1, <2>2, <2>3 DEF Describes
  <2>. QED  BY <2>3, <2>4, <2>5
<1>. QED  BY <1>1, <1>2, StepWaits, AlwaysConsistent, PTL DEF Spec

-----------------------------------------------------------------------------
(* Replay.  A table of views is a function on ids and nothing more, so that*)
(* two of them with the same rows are the same table.                      *)
TablesAreFunctions ==
  IsAFunction(view) /\ (batch # None => IsAFunction(batch.view))

LEMMA EmptyIsAFunction == IsAFunction(<<>>)
<1>1. <<>> = [x \in {} |-> {}]
  OBVIOUS
<1>. QED  BY <1>1 DEF IsAFunction

LEMMA TablesStep == IInv /\ TablesAreFunctions /\ [Next]_vars => TablesAreFunctions'
<1>. SUFFICES ASSUME IInv, TablesAreFunctions, [Next]_vars PROVE TablesAreFunctions'
  OBVIOUS
<1>1. CASE UNCHANGED <<view, batch>>
  BY <1>1 DEF TablesAreFunctions
<1>2. CASE BeginBatch
  BY <1>2 DEF BeginBatch, TablesAreFunctions, durable
<1>3. CASE view' = view /\ batch' = None
  BY <1>3 DEF TablesAreFunctions
<1>4. CASE CommitBatch
  BY <1>4 DEF CommitBatch, InBatch, TablesAreFunctions
<1>5. CASE ApplyEvent
  <2>1. PICK done \in 0 .. Len(NextBatch) :
          /\ batch = [view |-> batch.view, events |-> NextBatch, done |-> done]
          /\ Describes(batch.view, outbox, checkpoint + done) /\ Derived(batch.view)
    BY <1>5 DEF IInv, BatchInv, ApplyEvent, InBatch
  <2>2. batch.events = NextBatch /\ batch.done = done
    BY <2>1
  <2> DEFINE event == NextBatch[done + 1]
  <2>3. /\ done + 1 \in 1 .. Len(NextBatch)
        /\ checkpoint + done \in 0 .. Len(outbox) - 1 /\ checkpoint \in Nat /\ done \in Nat
        /\ event = outbox[(checkpoint + done) + 1]
    <3>1. Len(NextBatch) - done > 0
      BY <1>5, <2>2 DEF ApplyEvent, Remaining
    <3>. QED  BY <3>1, OutboxAssumption, BatchIsNext DEF IInv, Types
  <2>4. IsAFunction(Apply(batch.view, event))
    BY <2>1, <2>3, ApplyDescribes DEF IInv, Types, Consistent
  <2>5. batch'.view = Apply(batch.view, event) /\ view' = view
    <3> DEFINE half == [batch EXCEPT !.view = Apply(batch.view, event)]
    <3>1. half = [view |-> Apply(batch.view, event), events |-> NextBatch, done |-> done]
      BY <2>1
    <3>2. batch' = [half EXCEPT !.done = done + 1] /\ view' = view
      BY <1>5, <2>2 DEF ApplyEvent, durable
    <3>. HIDE DEF half
    <3>. QED  BY <3>1, <3>2
  <2>. QED  BY <2>4, <2>5 DEF TablesAreFunctions
<1>6. \/ UNCHANGED <<view, batch>> \/ BeginBatch \/ (view' = view /\ batch' = None)
      \/ CommitBatch \/ ApplyEvent
  BY DEF Next, Write, Work, Begin, AppendOutbox, Commit, UpdateMissing, WriteFails, Rollback,
     InsertProduct, UpdateStock, Notify, Abandon, WaitReturns, WaitTimesOut, RunBegins,
     DrainReturns, WaitEnds, BatchFails, Stop, CrashAndRestart, durable, duckdb, vars
<1>. QED  BY <1>1, <1>2, <1>3, <1>4, <1>5, <1>6

(* The replay of rows from .. to, row by row.                              *)
Replayed(f, rows, from, to) ==
  f = [i \in from - 1 .. to |-> IF i < from THEN rows ELSE Apply(f[i - 1], outbox[i])]

LEMMA ReplayExists ==
  ASSUME NEW rows, NEW from \in Nat \ {0}, NEW to \in Nat, from <= to
  PROVE  \E f : Replayed(f, rows, from, to)
<1> DEFINE D == {n \in Nat : \E f : Replayed(f, rows, from, from - 1 + n)}
<1>1. 0 \in D
  <2> DEFINE f == [i \in from - 1 .. from - 1 |-> rows]
  <2>1. f = [i \in from - 1 .. from - 1 |-> IF i < from THEN rows ELSE Apply(f[i - 1], outbox[i])]
    OBVIOUS
  <2>2. from - 1 + 0 = from - 1
    OBVIOUS
  <2>3. Replayed(f, rows, from, from - 1 + 0)
    BY <2>1, <2>2 DEF Replayed
  <2>. QED  BY <2>3
<1>2. ASSUME NEW n \in Nat, n \in D PROVE n + 1 \in D
  <2>1. PICK k : Replayed(k, rows, from, from - 1 + n)
    BY <1>2
  <2> DEFINE m == from - 1 + n
             g == [i \in from - 1 .. m + 1 |-> IF i = m + 1 THEN Apply(k[m], outbox[i]) ELSE k[i]]
  <2>2. /\ m \in Nat /\ m + 1 >= from /\ m + 1 = from - 1 + (n + 1) /\ m >= from - 1
        /\ \A i \in from - 1 .. m + 1 : i # m + 1 => i \in from - 1 .. m /\ i - 1 # m + 1
        /\ \A i \in from - 1 .. m + 1 : i >= from => i - 1 \in from - 1 .. m /\ i - 1 # m + 1
    OBVIOUS
  <2>3. \A i \in from - 1 .. m : k[i] = IF i < from THEN rows ELSE Apply(k[i - 1], outbox[i])
    BY <2>1 DEF Replayed
  <2>. HIDE DEF m
  <2>4. ASSUME NEW i \in from - 1 .. m + 1
        PROVE  g[i] = IF i < from THEN rows ELSE Apply(g[i - 1], outbox[i])
    <3>1. CASE i = m + 1
      <4>1. ~(i < from) /\ i - 1 = m /\ m \in from - 1 .. m + 1 /\ m # m + 1
        BY <2>2, <3>1
      <4>2. g[m] = k[m] /\ g[i] = Apply(k[m], outbox[i])
        BY <4>1, <3>1
      <4>. QED  BY <4>1, <4>2
    <3>2. CASE i # m + 1
      <4>1. g[i] = k[i] /\ i \in from - 1 .. m
        BY <2>2, <3>2
      <4>2. CASE i < from
        BY <2>3, <4>1, <4>2
      <4>3. CASE ~(i < from)
        <5>1. i >= from
          BY <4>3
        <5>2. i - 1 \in from - 1 .. m + 1 /\ i - 1 # m + 1
          BY <2>2, <5>1
        <5>3. g[i - 1] = k[i - 1]
          BY <5>2
        <5>. QED  BY <2>3, <4>1, <4>3, <5>3
      <4>. QED  BY <4>2, <4>3
    <3>. QED  BY <3>1, <3>2
  <2>5. g = [i \in from - 1 .. m + 1 |-> IF i < from THEN rows ELSE Apply(g[i - 1], outbox[i])]
    BY <2>4, Zenon
  <2>6. Replayed(g, rows, from, from - 1 + (n + 1))
    <3>1. Replayed(g, rows, from, m + 1)
      BY <2>5, Zenon DEF Replayed
    <3>. QED  BY <2>2, <3>1
  <2>. QED  BY <2>6
<1>3. \A n \in Nat : n \in D
  <2>. HIDE DEF D
  <2>. QED  BY <1>1, <1>2, InductionOverNat
<1>4. to - (from - 1) \in D /\ from - 1 + (to - (from - 1)) = to
  <2>1. to - (from - 1) \in Nat /\ from - 1 + (to - (from - 1)) = to
    OBVIOUS
  <2>. QED  BY <1>3, <2>1
<1>. QED  BY <1>4

(* What a replay over the finished views shows on its way: every product   *)
(* still, at its price, with the stock of the last event replayed about it *)
(* or, if there was none yet, the stock it shows in the end.               *)
Shows(rows, from, i, id) ==
  /\ rows[id].price = view[id].price
  /\ \/ rows[id].stock = view[id].stock /\ \A j \in from .. i : outbox[j].id # id
     \/ \E j \in from .. i : outbox[j].id = id /\ IsLast(outbox, i, j) /\ rows[id].stock = outbox[j].stock
Replays(rows, from, i) ==
  /\ DOMAIN rows = DOMAIN view /\ IsAFunction(rows) /\ Derived(rows)
  /\ \A id \in DOMAIN view : Shows(rows, from, i, id)

LEMMA ReplayStep ==
  ASSUME IInv, NEW from \in Nat \ {0}, NEW i \in Nat, from <= i, i <= checkpoint,
         NEW rows, Replays(rows, from, i - 1)
  PROVE  Replays(Apply(rows, outbox[i]), from, i)
<1> DEFINE e == outbox[i]
           rows2 == Apply(rows, e)
<1>1. /\ outbox \in Seq(Event) /\ Len(outbox) \in Nat /\ checkpoint \in 0 .. Len(outbox)
      /\ WellFormed(outbox) /\ Describes(view, outbox, checkpoint)
      /\ i \in 1 .. checkpoint /\ i \in 1 .. Len(outbox) /\ e \in Event
  BY DEF IInv, Types, Consistent
<1>2. e.id \in DOMAIN view
  BY <1>1, EventMentioned DEF Describes
<1>3. /\ DOMAIN rows2 = DOMAIN rows \cup {e.id} /\ IsAFunction(rows2)
      /\ rows2[e.id].stock = e.stock
      /\ rows2[e.id].price = IF e.type = "ProductCreated" THEN e.price ELSE rows[e.id].price
      /\ \A id \in DOMAIN rows : id # e.id => rows2[id] = rows[id]
      /\ Derived(rows2)
  BY <1>1, <1>2, ApplyRow DEF Replays
<1>. HIDE DEF rows2
<1>4. DOMAIN rows2 = DOMAIN view
  BY <1>2, <1>3 DEF Replays
<1>5. Shows(rows2, from, i, e.id)
  <2>1. rows2[e.id].price = view[e.id].price
    <3>1. e.type = "ProductCreated" => view[e.id].price = e.price
      BY <1>1 DEF Describes
    <3>2. rows[e.id].price = view[e.id].price
      BY <1>2 DEF Replays, Shows
    <3>. QED  BY <1>3, <3>1, <3>2
  <2>2. i \in from .. i /\ IsLast(outbox, i, i)
    BY DEF IsLast
  <2>. QED  BY <1>3, <2>1, <2>2 DEF Shows
<1>6. ASSUME NEW id \in DOMAIN view, id # e.id PROVE Shows(rows2, from, i, id)
  <2>1. rows2[id] = rows[id] /\ Shows(rows, from, i - 1, id)
    BY <1>3, <1>6 DEF Replays
  <2>2. \A j \in from .. i : j # i => j \in from .. i - 1
    OBVIOUS
  <2>3. CASE rows[id].stock = view[id].stock /\ \A j \in from .. i - 1 : outbox[j].id # id
    <3>1. \A j \in from .. i : outbox[j].id # id
      BY <1>6, <2>2, <2>3
    <3>. QED  BY <2>1, <2>3, <3>1 DEF Shows
  <2>4. ASSUME NEW j \in from .. i - 1, outbox[j].id = id, IsLast(outbox, i - 1, j),
               rows[id].stock = outbox[j].stock
        PROVE  Shows(rows2, from, i, id)
    <3>1. j \in from .. i /\ \A l \in j + 1 .. i : l # i => l \in j + 1 .. i - 1
      OBVIOUS
    <3>2. IsLast(outbox, i, j)
      BY <1>6, <2>4, <3>1 DEF IsLast
    <3>. QED  BY <2>1, <2>4, <3>1, <3>2 DEF Shows
  <2>. QED  BY <2>1, <2>3, <2>4 DEF Shows
<1>7. Replays(rows2, from, i)
  BY <1>3, <1>4, <1>5, <1>6 DEF Replays
<1>. QED  BY <1>7 DEF rows2

LEMMA ReplayEnds ==
  ASSUME IInv, IsAFunction(view), NEW from \in Nat \ {0}, from <= checkpoint,
         NEW rows, Replays(rows, from, checkpoint)
  PROVE  rows = view
<1>1. ASSUME NEW id \in DOMAIN view PROVE rows[id] = view[id]
  <2>1. rows[id].price = view[id].price
    BY DEF Replays, Shows
  <2>2. rows[id].stock = view[id].stock
    <3>1. ASSUME NEW j \in from .. checkpoint, outbox[j].id = id, IsLast(outbox, checkpoint, j)
          PROVE  view[id].stock = outbox[j].stock
      <4>1. j \in 1 .. checkpoint
        BY DEF IInv, Types
      <4>. QED  BY <3>1, <4>1 DEF IInv, Consistent, Describes
    <3>. QED  BY <3>1 DEF Replays, Shows
  <2>3. rows[id] = Project(rows[id]) /\ view[id] = Project(view[id])
    BY DEF Replays, Derived, IInv, Consistent
  <2>4. Project(rows[id]) = Project(view[id])
    BY <2>1, <2>2 DEF Project
  <2>. QED  BY <2>3, <2>4
<1>. QED  BY <1>1 DEF Replays, IsAFunction

(* Replaying the outbox over the views, from any row on, changes nothing:  *)
(* the events carry resulting state (ReadStore._apply).                    *)
THEOREM ReplaysAreSafe == Spec => []ReplayIsSafe
<1>1. Init => TablesAreFunctions
  BY EmptyIsAFunction DEF Init, TablesAreFunctions
<1>2. IInv /\ TablesAreFunctions => ReplayIsSafe
  <2>. SUFFICES ASSUME IInv, TablesAreFunctions, NEW k \in 1 .. checkpoint
                PROVE  Replay(view, k, checkpoint) = view
    BY DEF ReplayIsSafe
  <2>1. k \in Nat \ {0} /\ checkpoint \in Nat /\ k <= checkpoint
    BY DEF IInv, Types
  <2> DEFINE f == CHOOSE g : Replayed(g, view, k, checkpoint)
  <2>2. Replayed(f, view, k, checkpoint)
    BY <2>1, ReplayExists
  <2>3. Replay(view, k, checkpoint) = f[checkpoint]
    BY DEF Replay, Replayed
  <2>. HIDE DEF f
  <2>4. \A i \in k - 1 .. checkpoint : f[i] = IF i < k THEN view ELSE Apply(f[i - 1], outbox[i])
    BY <2>2 DEF Replayed
  <2> DEFINE D == {n \in Nat : k - 1 + n <= checkpoint => Replays(f[k - 1 + n], k, k - 1 + n)}
  <2>5. 0 \in D
    <3>1. k - 1 + 0 = k - 1 /\ k - 1 \in k - 1 .. checkpoint /\ k - 1 < k
          /\ \A j \in k .. k - 1 : FALSE
      BY <2>1
    <3>2. f[k - 1] = view
      BY <2>4, <3>1
    <3>3. Replays(view, k, k - 1)
      BY <3>1 DEF Replays, Shows, IInv, Consistent, TablesAreFunctions
    <3>. QED  BY <3>1, <3>2, <3>3
  <2>6. ASSUME NEW n \in Nat, n \in D PROVE n + 1 \in D
    <3>1. SUFFICES ASSUME NEW i \in Nat, i = k - 1 + (n + 1), i <= checkpoint
                   PROVE  Replays(f[i], k, i)
      BY <2>1
    <3>2. /\ i - 1 = k - 1 + n /\ i - 1 <= checkpoint /\ k <= i /\ ~(i < k)
          /\ i \in k - 1 .. checkpoint
      BY <2>1, <3>1
    <3>3. Replays(f[i - 1], k, i - 1)
      BY <2>6, <3>2
    <3>4. f[i] = Apply(f[i - 1], outbox[i])
      BY <2>4, <3>2
    <3>. QED  BY <2>1, <3>1, <3>2, <3>3, <3>4, ReplayStep
  <2>7. \A n \in Nat : n \in D
    <3>. HIDE DEF D
    <3>. QED  BY <2>5, <2>6, InductionOverNat
  <2>8. Replays(f[checkpoint], k, checkpoint)
    <3>1. checkpoint - (k - 1) \in Nat /\ k - 1 + (checkpoint - (k - 1)) = checkpoint
      BY <2>1
    <3>2. checkpoint - (k - 1) \in D
      BY <2>7, <3>1
    <3>. QED  BY <2>1, <3>1, <3>2
  <2>. QED  BY <2>1, <2>3, <2>8, ReplayEnds DEF TablesAreFunctions
<1>. QED  BY <1>1, <1>2, TablesStep, AlwaysConsistent, PTL DEF Spec

-----------------------------------------------------------------------------
(* The types.  An open SQLite transaction has a command inside it.         *)
Idles ==
  /\ txn # None => \E c \in Commands : InTxn(c)
  /\ position \in [Commands -> Nat] /\ \A c \in Commands : position[c] <= Len(outbox)
  /\ worker \in WorkerStates /\ running \in BOOLEAN /\ wake \in BOOLEAN
  /\ stop \in {"no", "early", "asked"}
  /\ faults \in 0 .. MaxFaults /\ crashes \in 0 .. MaxCrashes

LEMMA IdlesStep == IInv /\ Idles /\ [Next]_vars => Idles'
<1>. SUFFICES ASSUME IInv, Idles, [Next]_vars PROVE Idles'
  OBVIOUS
<1>0. outbox \in Seq(Event) /\ Len(outbox) \in Nat /\ command \in [Commands -> CommandStates]
  BY DEF IInv, Types
<1>1. ASSUME NEW c \in Commands, NEW state \in {"begun", "changed", "appended"}, Goto(c, state),
             UNCHANGED <<outbox, position, tasks, faults, crashes>>
      PROVE  Idles'
  BY <1>0, <1>1 DEF Idles, Goto, InTxn, tasks
<1>2. ASSUME txn' = None, UNCHANGED <<outbox, position, tasks, crashes>>, faults' \in 0 .. MaxFaults
      PROVE  Idles'
  BY <1>2 DEF Idles, tasks
<1>3. ASSUME NEW c \in Commands, Commit(c) PROVE Idles'
  <2>1. PICK e \in Event : outbox' = Append(outbox, e)
    BY <1>3, CommitEffect
  <2>2. Len(outbox') = Len(outbox) + 1
    BY <1>0, <2>1
  <2>3. /\ position' = [position EXCEPT ![c] = Len(outbox) + 1] /\ txn' = None
        /\ UNCHANGED <<tasks, faults, crashes>>
    BY <1>3, <2>2 DEF Commit
  <2>. QED  BY <1>0, <2>2, <2>3 DEF Idles, tasks
<1>4. ASSUME NEW c \in Commands, Begin(c) \/ AppendOutbox(c) PROVE Idles'
  BY <1>4, <1>1 DEF Begin, AppendOutbox, durable
<1>5. ASSUME NEW c \in Commands, NEW price, NEW stock, InsertProduct(c, price, stock) PROVE Idles'
  BY <1>5, <1>1 DEF InsertProduct, durable
<1>6. ASSUME NEW c \in Commands, NEW id, NEW delta, UpdateStock(c, id, delta) PROVE Idles'
  BY <1>6, <1>1 DEF UpdateStock, durable
<1>7. ASSUME NEW c \in Commands, UpdateMissing(c) \/ WriteFails(c) PROVE Idles'
  <2>1. faults' \in 0 .. MaxFaults
    BY <1>7, OutboxAssumption DEF Idles, UpdateMissing, WriteFails
  <2>. QED  BY <1>7, <2>1, <1>2 DEF UpdateMissing, WriteFails, Rollback, durable
<1>8. ASSUME NEW c \in Commands, Notify(c) \/ Abandon(c) \/ WaitReturns(c) \/ WaitTimesOut(c) PROVE Idles'
  <2>1. txn' = None /\ UNCHANGED <<outbox, position, worker, running, stop, faults, crashes>> /\ wake' \in BOOLEAN
    BY <1>8 DEF Notify, Abandon, WaitReturns, WaitTimesOut, LoopFree, Idles, durable, tasks
  <2>. QED  BY <2>1 DEF Idles
<1>9. ASSUME \/ RunBegins \/ BeginBatch \/ ApplyEvent \/ CommitBatch \/ DrainReturns \/ WaitEnds
             \/ BatchFails \/ Stop \/ UNCHANGED vars
      PROVE  Idles'
  <2>1. UNCHANGED <<outbox, position, command, crashes, txn>>
    BY <1>9 DEF RunBegins, BeginBatch, ApplyEvent, CommitBatch, DrainReturns, WaitEnds, BatchFails,
       Stop, sqlite, durable, commands, vars
  <2>2. worker' \in WorkerStates /\ running' \in BOOLEAN /\ wake' \in BOOLEAN /\ stop' \in {"no", "early", "asked"}
    BY <1>9 DEF RunBegins, BeginBatch, ApplyEvent, CommitBatch, DrainReturns, WaitEnds, BatchFails,
       Stop, tasks, vars, Idles, WorkerStates
  <2>3. faults' \in 0 .. MaxFaults
    <3>1. faults' = faults \/ (faults < MaxFaults /\ faults' = faults + 1)
      BY <1>9 DEF RunBegins, BeginBatch, ApplyEvent, CommitBatch, DrainReturns, WaitEnds, BatchFails,
         Stop, vars
    <3>. QED  BY <3>1, OutboxAssumption DEF Idles
  <2>. QED  BY <2>1, <2>2, <2>3 DEF Idles, InTxn
<1>10. ASSUME CrashAndRestart PROVE Idles'
  <2>1. crashes' \in 0 .. MaxCrashes
    BY <1>10, OutboxAssumption DEF CrashAndRestart, Idles
  <2>. QED  BY <1>10, <2>1 DEF CrashAndRestart, Idles, WorkerStates, durable
<1>. QED  BY <1>3, <1>4, <1>5, <1>6, <1>7, <1>8, <1>9, <1>10 DEF Next, Write, Work

(* Every variable keeps its type; a SQLite transaction is open only while  *)
(* a command is inside it and the worker is not, and a batch is always the *)
(* next rows of the outbox: one event loop serves both databases.          *)
THEOREM Typed == Spec => []TypeOK
<1>1. Init => Idles
  <2>. SUFFICES ASSUME Init PROVE Idles
    OBVIOUS
  <2>1. position \in [Commands -> Nat] /\ \A c \in Commands : position[c] <= Len(outbox)
    BY DEF Init
  <2>2. faults \in 0 .. MaxFaults /\ crashes \in 0 .. MaxCrashes
    BY OutboxAssumption DEF Init
  <2>. QED  BY <2>1, <2>2 DEF Init, Idles, WorkerStates
<1>2. IInv /\ Idles => TypeOK
  <2>. SUFFICES ASSUME IInv, Idles PROVE TypeOK
    OBVIOUS
  <2>1. txn # None => /\ txn \in Transaction
                      /\ command[txn.of] \in {"begun", "changed", "appended"} /\ worker # "draining"
    BY DEF Idles, IInv, TxnInv, InTxn
  <2>2. batch # None => worker = "draining" /\ batch.events = NextBatch
    BY DEF IInv, BatchInv
  <2>3. \A c \in Commands : command[c] \in CommandStates /\ position[c] \in 0 .. Len(outbox)
    BY DEF IInv, Types, Idles
  <2>. QED  BY <2>1, <2>2, <2>3 DEF TypeOK, IInv, Types, Idles
<1>. QED  BY <1>1, <1>2, IdlesStep, AlwaysConsistent, PTL DEF Spec
===============================================================================
