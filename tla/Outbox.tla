-------------------------------- MODULE Outbox --------------------------------
(***************************************************************************)
(* The CQRS example, examples/130-cqrs/src/catalog: command handlers that  *)
(* write SQLite rows and outbox rows, the notification that wakes the      *)
(* projection worker, the worker that materialises DuckDB from the outbox, *)
(* and callers that wait to read their own writes.                         *)
(*                                                                         *)
(* One process, one event loop.  A synchronous store call cannot be        *)
(* interleaved, but the process can die in the middle of it: its           *)
(* statements are steps of their own, and while a transaction is open      *)
(* nothing else runs.  What is committed survives, the rest starts over.   *)
(***************************************************************************)
EXTENDS Catalog, FiniteSets

CONSTANTS
  Commands,    \* commands sent through the mediator
  Prices, Stocks, Deltas,  \* what they ask for
  BatchSize,   \* batch_size of the Projector
  ReadMax,     \* the largest INTEGER of DuckDB, smaller than SQLite's
  MaxFaults,   \* bound on database errors
  MaxCrashes,  \* bound on process crashes
  None

Transaction ==
  [of : Commands, products : Seq(Product), outbox : Seq(Event), event : Event \cup {None}]

ASSUME OutboxAssumption ==
  /\ None \notin Transaction
  /\ Prices \subseteq Int /\ Stocks \subseteq Int /\ Deltas \subseteq Int
  /\ BatchSize \in Nat \ {0} /\ ReadMax \in Int
  /\ MaxFaults \in Nat /\ MaxCrashes \in Nat

VARIABLES
  products,    \* SQLite, committed: the products table
  outbox,      \* SQLite, committed: the outbox table
  view,        \* DuckDB, committed: product_view
  checkpoint,  \* DuckDB, committed: last_sequence
  txn,         \* the open SQLite transaction
  batch,       \* the open DuckDB transaction
  command,     \* how far each command has got
  position,    \* the outbox position each command returned
  worker,      \* where ProjectionWorker.run is
  running,     \* worker._running
  wake,        \* worker._wake
  stop,        \* whether stop() was called, and whether run had begun
  faults, crashes

durable == <<products, outbox, view, checkpoint>>
sqlite == <<products, outbox, txn>>
duckdb == <<view, checkpoint, batch>>
commands == <<command, position>>
tasks == <<worker, running, wake, stop>>
vars == <<durable, txn, batch, commands, tasks, faults, crashes>>

CommandStates == {"idle", "begun", "changed", "appended", "publishing", "returned",
                  "caughtup", "timedout", "raised", "lost"}
WorkerStates == {"created", "draining", "waiting", "stopped", "failed"}

Init ==
  /\ products = <<>> /\ outbox = <<>> /\ view = <<>> /\ checkpoint = 0
  /\ txn = None /\ batch = None
  /\ command = [c \in Commands |-> "idle"]
  /\ position = [c \in Commands |-> 0]
  /\ worker = "created" /\ running = FALSE /\ wake = FALSE /\ stop = "no"
  /\ faults = 0 /\ crashes = 0

(* No synchronous call is in progress on the event loop.                   *)
LoopFree == txn = None /\ worker # "draining"

Goto(c, state) == command' = [command EXCEPT ![c] = state]

-----------------------------------------------------------------------------
(* CreateProductHandler and AdjustStockHandler: one SQLite transaction.    *)
Begin(c) ==
  /\ LoopFree /\ command[c] = "idle"
  /\ txn' = [of |-> c, products |-> products, outbox |-> outbox, event |-> None]
  /\ Goto(c, "begun")
  /\ UNCHANGED <<durable, batch, position, tasks, faults, crashes>>

InsertProduct(c, price, stock) ==
  LET id == Len(txn.products) + 1
  IN  /\ command[c] = "begun"
      /\ txn' = [txn EXCEPT !.products = Append(@, [price |-> price, stock |-> stock]),
                            !.event = Created(id, price, stock)]
      /\ Goto(c, "changed")
      /\ UNCHANGED <<durable, batch, position, tasks, faults, crashes>>

UpdateStock(c, id, delta) ==
  LET stock == txn.products[id].stock + delta
  IN  /\ command[c] = "begun" /\ id \in DOMAIN txn.products
      /\ txn' = [txn EXCEPT !.products[id].stock = stock, !.event = Adjusted(id, stock)]
      /\ Goto(c, "changed")
      /\ UNCHANGED <<durable, batch, position, tasks, faults, crashes>>

(* ROLLBACK, and the exception reaches the caller of send.                 *)
Rollback(c) ==
  /\ txn' = None
  /\ Goto(c, "raised")
  /\ UNCHANGED <<durable, batch, position, tasks, crashes>>

(* UPDATE matched no row: ProductNotFoundError.                            *)
UpdateMissing(c) ==
  /\ command[c] = "begun"
  /\ Rollback(c)
  /\ UNCHANGED faults

WriteFails(c) ==
  /\ command[c] \in {"begun", "changed", "appended"}
  /\ faults < MaxFaults /\ faults' = faults + 1
  /\ Rollback(c)

AppendOutbox(c) ==
  /\ command[c] = "changed"
  /\ txn' = [txn EXCEPT !.outbox = Append(@, txn.event)]
  /\ Goto(c, "appended")
  /\ UNCHANGED <<durable, batch, position, tasks, faults, crashes>>

(* COMMIT; the handler then publishes, where it first yields.              *)
Commit(c) ==
  /\ command[c] = "appended"
  /\ products' = txn.products /\ outbox' = txn.outbox
  /\ txn' = None
  /\ position' = [position EXCEPT ![c] = Len(outbox')]
  /\ Goto(c, "publishing")
  /\ UNCHANGED <<duckdb, tasks, faults, crashes>>

(* WakeProjector runs in a task of its own, then the command returns.      *)
Notify(c) ==
  /\ LoopFree /\ command[c] = "publishing"
  /\ wake' = TRUE
  /\ Goto(c, "returned")
  /\ UNCHANGED <<durable, txn, batch, position, worker, running, stop, faults, crashes>>

(* The caller gives up before WakeProjector has run: nobody is woken.      *)
Abandon(c) ==
  /\ LoopFree /\ command[c] = "publishing"
  /\ Goto(c, "lost")
  /\ UNCHANGED <<durable, txn, batch, position, tasks, faults, crashes>>

(* wait_until_caught_up: poll the checkpoint until the deadline.           *)
CaughtUp_Exclusive(c) == checkpoint + 1 >= position[c]
CaughtUp(c) == checkpoint >= position[c]
WaitReturns(c) ==
  /\ LoopFree /\ command[c] = "returned" /\ CaughtUp(c)
  /\ Goto(c, "caughtup")
  /\ UNCHANGED <<durable, txn, batch, position, tasks, faults, crashes>>

WaitTimesOut(c) ==
  /\ LoopFree /\ command[c] = "returned" /\ ~CaughtUp(c)
  /\ Goto(c, "timedout")
  /\ UNCHANGED <<durable, txn, batch, position, tasks, faults, crashes>>

-----------------------------------------------------------------------------
(* ProjectionWorker.run and Projector.drain.                               *)
RunBegins ==
  /\ LoopFree /\ worker = "created"
  /\ running' = TRUE
  /\ worker' = "draining"
  /\ UNCHANGED <<durable, txn, batch, commands, wake, stop, faults, crashes>>

NextBatch == SubSeq(outbox, checkpoint + 1,
                    IF checkpoint + BatchSize < Len(outbox) THEN checkpoint + BatchSize ELSE Len(outbox))

(* Checkpoint and outbox are read; apply_batch begins its transaction.     *)
BeginBatch ==
  /\ worker = "draining" /\ batch = None /\ NextBatch # <<>>
  /\ batch' = [view |-> view, events |-> NextBatch, done |-> 0]
  /\ UNCHANGED <<durable, txn, commands, tasks, faults, crashes>>

DrainReturns ==
  /\ worker = "draining" /\ batch = None /\ NextBatch = <<>>
  /\ worker' = "waiting"
  /\ UNCHANGED <<durable, txn, batch, commands, running, wake, stop, faults, crashes>>

Fits(event) == event.stock <= ReadMax
Upsert(rows, id, row) == [i \in DOMAIN rows \cup {id} |-> IF i = id THEN row ELSE rows[i]]

Apply_Adds(rows, event) ==
  IF event.id \in DOMAIN rows THEN [rows EXCEPT ![event.id].stock = @ + event.stock]
  ELSE Upsert(rows, event.id, Project([price |-> event.price, stock |-> event.stock]))

(* ReadStore._apply.  An UPDATE of a missing row changes nothing.          *)
Apply(rows, event) ==
  IF event.type = "ProductCreated"
  THEN Upsert(rows, event.id, Project([price |-> event.price, stock |-> event.stock]))
  ELSE IF event.id \in DOMAIN rows
  THEN [rows EXCEPT ![event.id].stock = event.stock, ![event.id].in_stock = event.stock > 0]
  ELSE rows

InBatch == worker = "draining" /\ batch # None
Remaining == Len(batch.events) - batch.done

ApplyEvent_Autocommit ==
  /\ InBatch /\ Remaining > 0 /\ Fits(batch.events[batch.done + 1])
  /\ batch' = [batch EXCEPT !.view = Apply(@, batch.events[batch.done + 1]), !.done = @ + 1]
  /\ view' = batch'.view
  /\ UNCHANGED <<products, outbox, checkpoint, txn, commands, tasks, faults, crashes>>
ApplyEvent ==
  LET event == batch.events[batch.done + 1]
  IN  /\ InBatch /\ Remaining > 0 /\ Fits(event)
      /\ batch' = [batch EXCEPT !.view = Apply(@, event), !.done = @ + 1]
      /\ UNCHANGED <<durable, txn, commands, tasks, faults, crashes>>

(* ROLLBACK; the exception leaves drain and run, and ends the task.        *)
BatchFails ==
  /\ InBatch
  /\ \/ Remaining > 0 /\ ~Fits(batch.events[batch.done + 1]) /\ UNCHANGED faults
     \/ faults < MaxFaults /\ faults' = faults + 1
  /\ batch' = None
  /\ worker' = "failed"
  /\ UNCHANGED <<durable, txn, commands, running, wake, stop, crashes>>

CommitBatch_NextSequence ==
  /\ InBatch /\ Remaining = 0
  /\ view' = batch.view
  /\ checkpoint' = checkpoint + Len(batch.events) + 1
  /\ batch' = None
  /\ UNCHANGED <<sqlite, commands, tasks, faults, crashes>>
CommitBatch ==
  /\ InBatch /\ Remaining = 0
  /\ view' = batch.view
  /\ checkpoint' = checkpoint + Len(batch.events)
  /\ batch' = None
  /\ UNCHANGED <<sqlite, commands, tasks, faults, crashes>>

(* The wake-up or the poll timeout; either clears the wake flag.           *)
PollExpires_Never == FALSE
PollExpires == TRUE
WaitEnds ==
  /\ LoopFree /\ worker = "waiting"
  /\ wake \/ PollExpires
  /\ wake' = FALSE
  /\ worker' = IF running THEN "draining" ELSE "stopped"
  /\ UNCHANGED <<durable, txn, batch, commands, running, stop, faults, crashes>>

Stop_WakesOnly ==
  /\ LoopFree /\ stop = "no"
  /\ wake' = TRUE
  /\ stop' = IF worker = "created" THEN "early" ELSE "asked"
  /\ UNCHANGED <<durable, txn, batch, commands, worker, running, faults, crashes>>
Stop ==
  /\ LoopFree /\ stop = "no"
  /\ running' = FALSE
  /\ wake' = TRUE
  /\ stop' = IF worker = "created" THEN "early" ELSE "asked"
  /\ UNCHANGED <<durable, txn, batch, commands, worker, faults, crashes>>

(* The process dies, in the middle of a transaction perhaps, and is        *)
(* started again: build_app reopens both files and creates a new worker.   *)
CrashAndRestart ==
  /\ crashes < MaxCrashes /\ crashes' = crashes + 1
  /\ txn' = None /\ batch' = None
  /\ command' = [c \in Commands |-> IF command[c] = "idle" THEN "idle" ELSE "lost"]
  /\ worker' = "created" /\ running' = FALSE /\ wake' = FALSE /\ stop' = "no"
  /\ UNCHANGED <<durable, position, faults>>

-----------------------------------------------------------------------------
Write(c) ==
  \/ Begin(c) \/ AppendOutbox(c) \/ Commit(c) \/ UpdateMissing(c)
  \/ \E price \in Prices, stock \in Stocks : InsertProduct(c, price, stock)
  \/ \E id \in DOMAIN products, delta \in Deltas : UpdateStock(c, id, delta)

Work ==
  RunBegins \/ BeginBatch \/ ApplyEvent \/ CommitBatch \/ DrainReturns \/ WaitEnds

Next ==
  \/ \E c \in Commands :
       \/ Write(c) \/ WriteFails(c) \/ Notify(c) \/ Abandon(c)
       \/ WaitReturns(c) \/ WaitTimesOut(c)
  \/ Work \/ BatchFails
  \/ Stop \/ CrashAndRestart

Spec == Init /\ [][Next]_vars

(* Synchronous code goes on, and the event loop serves ready tasks and     *)
(* timers in turn: neither a command nor the worker is passed over for     *)
(* ever.  Nothing obliges a command to be sent, stop to be called, a       *)
(* database to fail or a process to crash.                                 *)
FairSpec ==
  /\ Spec
  /\ WF_vars(Work)
  /\ WF_vars(BatchFails /\ UNCHANGED faults)
  /\ \A c \in Commands : WF_vars(command[c] # "idle" /\ Write(c))

-----------------------------------------------------------------------------
(* The variables have their types; at most one transaction is open, and it *)
(* belongs to whoever is on the event loop.                                *)
TypeOK ==
  /\ products \in Seq(Product) /\ outbox \in Seq(Event)
  /\ txn \in Transaction \cup {None}
  /\ \A c \in Commands : command[c] \in CommandStates /\ position[c] \in 0 .. Len(outbox)
  /\ worker \in WorkerStates /\ running \in BOOLEAN /\ wake \in BOOLEAN
  /\ stop \in {"no", "early", "asked"}
  /\ faults \in 0..MaxFaults /\ crashes \in 0..MaxCrashes
  /\ checkpoint \in 0 .. Len(outbox)
  /\ txn # None => command[txn.of] \in {"begun", "changed", "appended"} /\ worker # "draining"
  /\ batch # None => worker = "draining" /\ batch.events = NextBatch

(* Whatever fails or crashes, in whatever order: the products are what the *)
(* outbox says, the views are what its first `checkpoint` rows say, and    *)
(* neither moves back.                                                     *)
Promise == INSTANCE ReadModel WITH
  history <- outbox, written <- products, applied <- checkpoint, readable <- view
ImplementsReadModel == Promise!Spec

(* Events carry resulting state: replaying the outbox over the views again *)
(* from any row on, as for a rebuild, shows the same catalog.              *)
Replay(rows, from, to) ==
  LET after[i \in from - 1 .. to] == IF i < from THEN rows ELSE Apply(after[i - 1], outbox[i])
  IN  after[to]
ReplayIsSafe ==
  \A k \in 1 .. checkpoint : Replay(view, k, checkpoint) = view

(* A caller that waited until the read model caught up finds its product,  *)
(* with the stock its own write or a later one left there.                 *)
ReadYourWrites ==
  \A c \in Commands : command[c] = "caughtup" =>
    LET id == outbox[position[c]].id
    IN  /\ id \in DOMAIN view
        /\ \E i \in position[c] .. Len(outbox) :
             outbox[i].id = id /\ view[id].stock = outbox[i].stock

(* Every committed command is projected while the worker lives, though the *)
(* wake-up may be lost: "Drop this notification entirely and the read side *)
(* still catches up on the next poll" (domain.py).                         *)
WorkerLives == worker \notin {"stopped", "failed"}
CatchesUp ==
  \A n \in 1 .. Cardinality(Commands) :
    Len(outbox) >= n ~> checkpoint >= n \/ ~WorkerLives

(* stop() ends a worker whose run() has begun.                             *)
StopTakesEffect == stop = "asked" ~> ~WorkerLives \/ stop = "no"

(* run()'s docstring: it drains and waits "until ``stop`` is called".      *)
StopAlwaysStops == stop # "no" ~> ~WorkerLives \/ stop = "no"

(* apply_batch's docstring: "A failed apply rolls both back and the batch  *)
(* is retried from the same checkpoint."                                   *)
FailedBatchIsRetried ==
  worker = "failed" /\ stop = "no" ~> InBatch \/ stop # "no"
===============================================================================
