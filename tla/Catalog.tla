------------------------------- MODULE Catalog -------------------------------
(***************************************************************************)
(* The catalog of examples/130-cqrs as data: products, the events in the   *)
(* outbox, the views the read side stores (src/catalog/domain.py), and     *)
(* what a log of events says about the catalog.                            *)
(*                                                                         *)
(* Product ids are the rowids 1, 2, ... of a table without deletions, and  *)
(* outbox sequences those of an AUTOINCREMENT column whose counter rolls   *)
(* back with its transaction, so an event's sequence is its position.      *)
(* Names are left out: no code path depends on them.                       *)
(***************************************************************************)
EXTENDS Integers, Sequences

Created(id, price, stock) ==
  [type |-> "ProductCreated", id |-> id, price |-> price, stock |-> stock]
(* The payload carries the resulting stock, not the delta.                 *)
Adjusted(id, stock) == [type |-> "StockAdjusted", id |-> id, stock |-> stock]

Product == [price : Int, stock : Int]
Event == [type : {"ProductCreated"}, id : Nat, price : Int, stock : Int]
         \cup [type : {"StockAdjusted"}, id : Nat, stock : Int]

PriceTier(price) ==
  CASE price < 20 -> "budget" [] price >= 20 /\ price < 100 -> "standard" [] OTHER -> "premium"

(* domain.project: the read-side view of a write-side record.              *)
Project(product) ==
  [price |-> product.price, stock |-> product.stock,
   in_stock |-> product.stock > 0, price_tier |-> PriceTier(product.price)]

-----------------------------------------------------------------------------
(* What it means for a table to be the catalog that the first n events of  *)
(* a log describe, stated without replaying them: a product exists once an *)
(* event created it, at that price, with the stock its last event reports. *)
Mentioned(log, n) == {log[i].id : i \in {j \in 1..n : log[j].type = "ProductCreated"}}
IsLast(log, n, i) == \A j \in i+1..n : log[j].id # log[i].id
Describes(rows, log, n) ==
  /\ DOMAIN rows = Mentioned(log, n)
  /\ \A i \in 1..n :
       /\ log[i].type = "ProductCreated" => rows[log[i].id].price = log[i].price
       /\ IsLast(log, n, i) => rows[log[i].id].stock = log[i].stock

(* The derived columns of the read side agree with the stored ones.        *)
Derived(views) ==
  \A id \in DOMAIN views : views[id] = Project(views[id])
===============================================================================
