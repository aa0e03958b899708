------------------------------- MODULE MCOutbox -------------------------------
(* Small instances of Outbox: up to three commands.                         *)
EXTENDS Outbox

(* A sale and a delivery. *)
MCDeltas == {-1, 1}
===============================================================================
