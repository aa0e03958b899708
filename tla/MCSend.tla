-------------------------------- MODULE MCSend --------------------------------
(***************************************************************************)
(* A small program for Send: a request class Order with a subclass Rush;   *)
(* a behavior for every request, one for Order and its subclasses, one for *)
(* Order only, and something that is not a behavior.                       *)
(***************************************************************************)
EXTENDS Send, TLC

CONSTANTS Order, Rush, Logging, Retry, Audit, Impostor

MCIsA == {<<Order, Order>>, <<Rush, Rush>>, <<Rush, Order>>}
MCMatchType == Logging :> Request @@ Retry :> Order @@ Audit :> Order

SendSymmetry == Permutations(Sends)
===============================================================================
