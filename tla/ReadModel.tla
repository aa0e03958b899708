------------------------------- MODULE ReadModel -------------------------------
(***************************************************************************)
(* What the CQRS example promises (docs/architecture.md): one durable      *)
(* history of events; the write side is always all of it, the read side    *)
(* always exactly a prefix of it, and the prefix only grows.               *)
(***************************************************************************)
EXTENDS Catalog

VARIABLES
  history,   \* the events committed so far
  written,   \* the write side: products by id
  applied,   \* how many events the read side shows
  readable   \* the read side: views by id

vars == <<history, written, applied, readable>>

Init ==
  /\ history = <<>> /\ applied = 0
  /\ written = <<>> /\ readable = <<>>

(* A command commits one event that makes sense for the write side.        *)
Commit ==
  /\ Len(history') = Len(history) + 1
  /\ history = SubSeq(history', 1, Len(history))
  /\ history'[Len(history')].type = "ProductCreated" <=>
       history'[Len(history')].id \notin DOMAIN written
  /\ Describes(written', history', Len(history'))
  /\ UNCHANGED <<applied, readable>>

(* The read side catches up with some of the events it has not shown.      *)
Advance ==
  /\ applied' \in applied + 1 .. Len(history)
  /\ Describes(readable', history, applied') /\ Derived(readable')
  /\ UNCHANGED <<history, written>>

Next == Commit \/ Advance
Spec == Init /\ [][Next]_vars
===============================================================================
