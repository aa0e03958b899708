------------------------------ MODULE MCExamples ------------------------------
(***************************************************************************)
(* The example applications that keep state, in one run.  They are         *)
(* programs of their own and share nothing: a behavior is of one of them,  *)
(* chosen at the start, and the others stay at their initial states.       *)
(***************************************************************************)
EXTENDS Orders, TaskBoard, VaultThreads, Scopes, OrderDesk, Signup, RateLimit, OrderForm, TLC

VARIABLE app  \* the example that runs

apps == <<orderVars, boardVars, vaultVars, scopesVars, deskVars, signupVars, rateVars, formVars>>

Running(name, action, others) == app = name /\ action /\ UNCHANGED <<app, others>>

\* The choices some examples leave to their initial state are made only in
\* behaviors of those examples.
MCInit ==
  /\ app \in {"orders", "taskboard", "vault", "scopes", "desk", "signup", "rate", "form"}
  /\ OrdersInit /\ BoardInit /\ VaultInit /\ ScopesInit /\ DeskInit /\ SignupInit
  /\ RateInit /\ FormInit
  /\ app # "orders" => api = "sync"
  /\ app # "desk" => desk = "after" /\ overlap = FALSE /\ inStock = TRUE
  /\ app # "signup" => twin = "sync"
  /\ app # "form" => formTwin = "sync"
  /\ app # "rate" => limiter["decorated"] = AlwaysAllow /\ limiter["mediated"] = AlwaysAllow

MCNext ==
  \/ Running("orders", OrdersNext, <<boardVars, vaultVars, scopesVars, deskVars, signupVars, rateVars, formVars>>)
  \/ Running("taskboard", BoardNext, <<orderVars, vaultVars, scopesVars, deskVars, signupVars, rateVars, formVars>>)
  \/ Running("vault", VaultNext, <<orderVars, boardVars, scopesVars, deskVars, signupVars, rateVars, formVars>>)
  \/ Running("scopes", ScopesNext, <<orderVars, boardVars, vaultVars, deskVars, signupVars, rateVars, formVars>>)
  \/ Running("desk", DeskNext, <<orderVars, boardVars, vaultVars, scopesVars, signupVars, rateVars, formVars>>)
  \/ Running("signup", SignupNext, <<orderVars, boardVars, vaultVars, scopesVars, deskVars, rateVars, formVars>>)
  \/ Running("rate", RateNext, <<orderVars, boardVars, vaultVars, scopesVars, deskVars, signupVars, formVars>>)
  \/ Running("form", FormNext, <<orderVars, boardVars, vaultVars, scopesVars, deskVars, signupVars, rateVars>>)

\* Only Orders claims progress.
MCSpec == MCInit /\ [][MCNext]_<<app, apps>> /\ OrdersFairness

\* The types of every module's state (one invariant for the run).
ExamplesTypeOK ==
  /\ OrdersTypeOK /\ BoardTypeOK /\ VaultTypeOK /\ ScopesTypeOK
  /\ DeskTypeOK /\ SignupTypeOK /\ RateTypeOK /\ FormTypeOK

\* What the behaviors of the examples write down is what happened: traces and
\* unit-of-work logs are bracketed (TransactionBehavior of 040 and 100), and
\* audit trails and logs name every operation that took effect (005, 100).
RecordsTellWhatHappened ==
  TraceIsBracketed /\ WritesAreBracketed /\ LogsAccountForDispatches /\ TrailTellsWhatHappened

\* The small stores add up after any overlap and failure: orders, charges and
\* refunds (005), users and mails (110), calls and quotas (045), order ids (065).
StoresAddUp == BooksBalance /\ SignupsKeepTheirUsers /\ QuotaIsExact /\ IdsCountOrders

-----------------------------------------------------------------------------
\* Three orders for one item, of which there is enough for any two but o1 and
\* o2 together; the card of o3 is declined.
MCSku == [o \in Purchases |-> "widget"]
MCQuantity == [o \in Purchases |-> IF o = "o1" THEN 2 ELSE 1]
MCStock == "widget" :> 2

\* Two tasks are added and one is asked for and completed; the lists r6 and
\* r7 want the cache, the get r8 does not, and r9 may not write.
MCKind == [r \in BoardSends |->
  CASE r \in {"r1", "r2"} -> "add" [] r \in {"r3", "r9"} -> "complete"
    [] r \in {"r6", "r7"} -> "list" [] OTHER -> "get"]
MCTarget == [r \in BoardSends |-> 1]

\* c1 and c2 may edit d1 (owner, admin) and c8 may not; c3 lacks nothing to
\* view, c4 may list; c5 .. c7 come by the command line; the header of
\* c9 has another scheme.
Who(id, admin, mfa) == [id |-> id, admin |-> admin, mfa |-> mfa]
MCOp == [c \in Calls |-> CASE c = "c3" -> "view" [] c = "c4" -> "list" [] OTHER -> "edit"]
MCDocument == [c \in Calls |-> IF c = "c6" THEN "missing" ELSE "d1"]
MCToken == [c \in Calls |->
  CASE c = "c1" -> Who("alice", FALSE, TRUE)
    [] c = "c2" -> Who("root", TRUE, TRUE)
    [] c = "c4" -> Who("root", TRUE, FALSE)
    [] c = "c6" -> Who("alice", FALSE, FALSE)
    [] c = "c7" -> Nobody
    [] c = "c9" -> Who("alice", FALSE, FALSE)
    [] OTHER    -> Who("bob", FALSE, c # "c3")]
MCOwner == [d \in Documents |-> IF d = "d1" THEN "alice" ELSE "bob"]

\* Two orders placed, then cancelled, refunded, exported; a misspelled action.
MCAction == [o \in Operations |->
  CASE o = "cancel1" -> "cancel" [] o = "refund1" -> "refund" [] o = "export1" -> "export"
    [] o = "plase1" -> "plase" [] OTHER -> "place"]
MCOrderNo == [o \in Operations |-> 1]

MCLookedFor == [g \in Lookups |-> IF g = "g1" THEN 1 ELSE 2]

\* Three orders that pass, one refused by each layer, and both ends of
\* Subscribe.
MCRoute == [p \in Posts |-> IF p \in {"s1", "s2"} THEN "subscriptions" ELSE "orders"]
MCBrokenRules == [p \in Posts |->
  CASE p = "s2" -> {"plan"} [] p = "p4" -> {"customer", "quantity"} [] OTHER -> {}]
===============================================================================
