# pymediate: verification project

TLA+ models of [pymediate](../src/README.md), a mediator library for Python:
application code sends a *request* to the one handler registered for its type,
opens a *stream*, or publishes a *notification* to every subscriber of its
type. Each handler is an instance taken from a service provider, and a pipeline of
behaviors may wrap it. The library has an asyncio variant (`pymediate`) and a
synchronous one (`pymediate.sync`) over a shared core (`pymediate._internal`);
the repository also ships examples, most of them once per variant, of which the CQRS
catalog (`examples/130-cqrs`) is a small distributed system of its own, and the scripts
and workflows that release the library.

Paths below are relative to the repository root.

* [Inventory](#inventory)
* [Modules and how they correspond to the code](#modules-and-how-they-correspond-to-the-code)
* [Runs](#runs)
* [Fairness](#fairness)
* [Where the code and its documentation disagree](#where-the-code-and-its-documentation-disagree)
* [Proofs](#proofs)
* [Not modelled](#not-modelled)
* [Plan](#plan)

## Inventory

`PROJECT.json` lists the same components with their status, and the hazards at
their lines with the properties that cover them.

| component | state | operations | interacts with | hard behaviour |
|---|---|---|---|---|
| registries, `src/pymediate/_internal/registry.py` | three process-wide dictionaries (response type by request type, handler class by request type, tuple of subscriber classes by notification type) and one `RLock` each | register, `has_*`, `get_*`, list, clear one or all, statistics | class-definition hooks write, mediators read | threads importing modules concurrently; nested locks; unlocked reads; a read-then-replace of a tuple |
| class-definition hooks, `_internal/handler.py`, `_internal/stream.py`, `_internal/notification.py`, `request.py` | none | `__init_subclass__`: inspect bases and `__call__`, register | registries | two looks at a registry without a lock; a definition that fails half way |
| asynchronous publish, `mediator.py`, `_internal/mediator.py` | the resolved handlers of the call | snapshot, resolve all, `gather(return_exceptions=True)`, collect | registry, provider, event loop | subscribers interleave, fail, are cancelled, exit the interpreter |
| synchronous publish, `sync/mediator.py` | the same | snapshot, resolve all, call one after the other, collect | registry, provider, threads | definitions by other threads meanwhile; a failure in the middle; an `async def` subscriber |
| construction and send, `mediator.py`, `sync/mediator.py`, `_internal/mediator.py`, `_internal/pipeline.py`, `pipeline.py` | the validated behaviors sequence | `__init__`, `send`, `should_apply`, `compose` | registry, provider, behaviors, handler | overlapping sends; behaviors that call `next()` several times, never, or turn failures into answers |
| stream dispatch, `mediator.py`, `sync/mediator.py` | the generator | `stream`, iteration by the consumer | registry, provider, handler | lazy body, abandoned and cancelled iteration, a registry that changes meanwhile |
| services, `service.py` | a mapping from exact types to instances | construct, combine, resolve | mediators | collections made of each other |
| dependency-injector adapter, `providers/dependency_injector.py` | an index type → providers built once | resolve, check what was made | mediators | overrides after the index was built |
| errors, `errors.py` | none | - | everything | - |
| CQRS example, `examples/130-cqrs/src/catalog` | SQLite (products, outbox), DuckDB (views, checkpoint), the worker task and its wake flag | two commands, `WakeProjector`, `drain`, `run`, `stop`, `wait_until_caught_up` | mediator `send` and `publish`, event loop, two databases | crash between commits, errors in a batch, lost wake-up, stop against start, reading one's own writes |
| 040 pipeline behaviors | task store, cache, trace | two commands, two queries through four behaviors | send | a query answered from a cache nobody invalidates; cancelled transactions |
| 050 handler composition | stock, receipts, order ids | `PlaceOrder` over `ReserveStock` and `ChargePayment`, `OrderPlaced` | send, publish, `gather` | one part fails while the other takes effect; `asyncio.run` ends |
| 045 behaviors and decorators | a call counter | count and refuse | pipeline, or a handler's own call | the counter at its limit, shared by two routes |
| 075 authorization | documents, audit list | view, list, edit, over HTTP and by a CLI | pipeline, thread pool of the web framework | checks, load and save of overlapping calls |
| 065 validation | an order counter | subscribe, place an order | pipeline, thread pool | an unlocked increment |
| 005 mediator or service | orders, payments, mails, audit trail | place, cancel, refund, export | pipeline or a service class | overlapping, abandoned and failing operations |
| 100 dependency injection | users, a unit of work per context | register, get, reset | container, context variables | scopes that outlive a dispatch or are copied |
| 110 testing | users, mails | register, mail, get, bind | late-bound sender | a mail that fails after its user was created |
| release, `.github/workflows`, `scripts/release_impact.py`, `scripts/wait_for_index.py` | `main`, cut branches, pull requests, tags; jobs, indexes, Releases | assess, cut, merge, tag; check, upload, wait, test, publish, re-run | GitHub, two package indexes | events between two steps; an assessment that failed and is not asked; uploads that cannot be repeated; runs that overlap |
| examples runner, `scripts/run_examples.py` | results | check, copy, pin, sync, test | the checkout, uv | a checkout that is edited meanwhile; a check that raises instead of reporting |
| uv pin, `scripts/update_uv.py` | two pins in one file | bump | uv | killed between two writes; a target that is no version |
| other examples, framework adapters, benchmarks, site, other workflows | none, or one dictionary | - | - | - |

What makes each of the modelled ones correct:

* **registries and hooks**: nothing is registered twice, lost, or put back by a
  writer that started before a clear; whatever dispatch can find was validated
  against the declared response; the locks neither deadlock nor stay taken; the
  two-look reads go wrong only over a clear.
* **publish**: the subscribers of one snapshot, none of them if one cannot be
  resolved, each at most once, no verdict while one is running, and a
  failure is never lost.
* **send**: the layers of one request are the applicable behaviors, nested in
  the declared order, around the handler, however often a layer re-enters the rest.
* **stream**: nothing is produced ahead of consumption or by another handler than the
  one the call resolved.
* **providers**: a combination never changes its operands; a stale index may refuse,
  it never hands out a wrong type; asked for a type, each of the three kinds of provider
  hands out an instance of it or raises, and its answer to `in` fits that.
* **examples**: their stores keep adding up under the overlap their twin allows, and where
  one twin is atomic, the other one looks as if it were.
* **release**: a version assessed as a patch breaks no API that its assessment could see, one
  release is open to review, nothing unproven reaches PyPI, no change is missing from the notes,
  and every run comes to rest.
* **scripts**: an exit code means what it says, a traceback in a suite is left to an edit or the
  operating system, and the two pins of uv part only where the script ends between its writes.
* **CQRS**: at every instant, crashes included, the committed read side is
  exactly what a prefix of the outbox says; waiters read their writes; the
  prefix reaches every row while the worker lives.

## Modules and how they correspond to the code

```
Registry <- MCRegistry            Delivery <= Publish     <- MCPublish
                                     ^=== PublishSync     <- MCPublishSync
Send <- MCSend
                                  Catalog <- ReadModel <= Outbox <- MCOutbox

Orders  Scopes  OrderDesk  Signup  RateLimit  OrderForm  \
TaskBoardSync <= TaskBoard                                 <- MCExamples
Vault <= VaultThreads                                    /

Streams  Providers  ReleaseCut  Release  ExamplesRunner  UvPin  <- MCLibrary

proofs:  Registry <- RegistryProofs        Publish <- PublishProofs
         Outbox <- OutboxProofs            PublishSync <- PublishSyncProofs
         Send <- SendProofs
         MCExamples <- ExamplesProofs      MCLibrary <- LibraryProofs
         DataLemmas: what those proofs use of sequences, sums and images

Selection <- Send, PublishSync, Scopes, OrderDesk, Providers, ExamplesRunner, DataLemmas
```

`<-` is EXTENDS; `<=` is refinement, by `INSTANCE ... WITH` in the detailed
module. `PROJECT.json` "map" gives the lines each definition stands for.
Definitions with a suffix (`Release_AllButHandler`, `Rejected_Duplicates`) are
faulty variants of the definition before the underscore, a bug the code could
plausibly have; "mutants" pairs each property with one that it must reject. A property
that makes one promise about a component in several parts (`StoresAddUp`, `ScriptsAreHonest`,
`CutsAreSound`) is a conjunction of named or commented parts.

### `Registry`

The three dictionaries, the three locks and a set of threads. A thread's `pc`
says where in its call it is; `arg`, `existing` and `counts` are locals.
Defining a class is one action up to the first registry access and one per
access after that, so the hook of a handler is `DefineHandler` (up to
`has_response_type`), `CheckSignature` (`get_response_type`, the assertion, the
signature), an `Acquire`, and `RegisterHandler`. Reads of a single key take no
lock in the code and none here. `ReadSubscribers` and `StoreSubscribers` are two
steps, because between them another thread may run, unless the lock says no.
`clear_all_registries` and `get_registry_stats` take their locks one by one
(`all_r_lock`, `all_h_lock`, ...). What a class declares is given by constants; the
inspection of a `__call__` signature is the predicate `SignatureFits`. History
variables: `outcome` (what became of each definition) and `calls` (a bound).

### `Delivery`, `Publish`, `PublishSync`

`Delivery` is the guide's "Delivery and failures"
(`docs/content/docs/guide/notifications.mdx`) as a state machine over three
variables. `Publish` is the asyncio code: `PublishCall` is everything before the
first suspension (read, resolve, `gather`); `Start` and `Wake` run one subscriber
to its next suspension or its end; `Cancel` is the caller giving up; `Resume` is
the code after `gather`. asyncio itself is external: tasks start in creation
order, `gather` waits for all of its children and passes a cancellation on, and
`asyncio.run` cancels what is left after a `SystemExit`. A plain `def` subscriber
can be registered for the same notification type, because the hook does not
look at the kind of its `__call__`; `PublishToMixed` says what happens then.
`PublishSync` has the same snapshot and resolution as separate steps, as threads
may define subscribers between them, and then one call at a time, with the
collected exceptions. Both state `ImplementsDelivery`; in `PublishSync` the
promise is made to subscribers that are not `async def` (those are called, and
the coroutine is dropped).

### `Send`

`Construct` is `Mediator.__init__` for every behaviors sequence up to a length,
with duplicates, non-behaviors and unregistered ones. `SendUnresolved` and
`SendResolved` are `send` up to the first call; `Compose` builds the chain as a nested
record, the way `compose` builds nested closures, by a fold from the inside out;
`CallNext` and `Leave` are what a behavior may do. `OnionOrder` compares the
stack of open calls with `Layers`, which is written from the documentation's
rule about applicability instead of from the fold.

### `Catalog`, `ReadModel`, `Outbox`

`Catalog` says what an event means: `Describes(rows, log, n)` relates the rows
of either database to a prefix of the outbox (latest price and stock per
product). `ReadModel` is the promise: a history, the write side of all of it, the
read side of an exact prefix, and steps that append one event or advance the
prefix. `Outbox` is the code: `Begin`, `InsertProduct`/`UpdateStock`,
`AppendOutbox`, `Commit` are the statements of one SQLite transaction;
`BeginBatch`, `ApplyEvent`, `CommitBatch` those of one `apply_batch`. While either is
open nothing else runs on the loop, as the code does not yield there, but
the process can die between any two (`CrashAndRestart`: committed state stays,
everything else starts over). `WaitEnds` is the end of the `wait_for`, by wake-up
or by timeout. DuckDB's `INTEGER` is narrower than SQLite's: `Fits` is the
boundary, `ReadMax` its value, and an event beyond it fails its batch.

### The example applications (`MCExamples`)

Each is a program of its own and a module of its own; they share a run because they
share nothing else. `MCExamples` chooses `app` in `Init`; a step of the run is a step of
that application and leaves the variables of the others alone, so that its state graph is
the disjoint union of theirs, and an invariant of one is checked on all its states. What
the applications have in common in the code, one step of an event loop between two
suspensions, is one action in all of them.

* `Orders` (050): `PlaceOrder` starts both sends, `ReserveStock` and `ChargePayment` are each
  what their handler does after its await, `Resume` is the code after `gather`, which
  goes on as soon as one part has failed and leaves the other running, `RunEnds` is
  the cancellation of what is left when `main` is over. `Sync...` is the twin.
* `TaskBoardSync`, `TaskBoard` (040): in the asynchronous board `SendCommand` and
  `SendQuery` are the behaviors on the way in up to the one await of a handler, `AddTask`
  and so on the rest, behaviors on the way out included. Whether a query may use the cache is
  a field of each request (`WantsCache`): a `GetTask` can opt out and a `ListOpenTasks` opt in.
  `CacheHit` never awaits. The synchronous board, one step a request, is its specification:
  `MirrorsSyncBoard`. What the cache holds are the `Task` objects themselves, which the store
  mutates, so an entry is a set of task ids and `DoneOf` looks through it; the list itself is a
  snapshot, and stays the one that was stored. `Refills` is the one step the twin has no
  counterpart of: of cacheable lists that missed together, the later answers afresh and replaces
  the entry of the earlier. (For a get the two entries are the same task, and nothing shows.)
* `Vault`, `VaultThreads` (075): the asynchronous vault has no suspension between dispatch and
  end, so a call is one step; FastAPI runs the synchronous routes on a thread pool, so `Check`,
  `LoadDocument` and `SaveDocument` interleave. `MirrorsAsyncVault` is the refinement. A CLI
  call is a process with a store of its own.
* `Scopes` (100): `unit` is the `ContextLocalSingleton` of each context. A spawned context starts
  with a copy of its parent's, i.e. with the same unit of work if there is one.
* `OrderDesk` (005): `desk` says whether the service class or the handlers behind
  `AuditBehavior` run, `overlap` whether it is the asynchronous twin.
* `Signup` (110), `RateLimit` (045): small; both twins in one module.
* `OrderForm` (065): `_next_id += 1` on the thread pool is a read and a write
  (`ReadCounter`, `WriteCounter`), and the id is read once more: a data race whose outcomes
  are all behaviors of the model.

### The parts around the core (`MCLibrary`)

Composed in the same way, by `part`.

* `Streams`: `Stream` is `Mediator.stream`, which resolves and returns a generator of which
  nothing has run; `SyncNext`, or `AsyncNext` and `Arrive`, are one pull; `Stop` is a
  consumer that breaks off or is cancelled. `ClearHandlers` and `DefineHandler` change the
  registry under open streams.
* `Providers`: `provider` is the kind of the one a mediator was given. `Services` collections are
  functions from types to instances, with the operands they were made of as history, and
  `using` is the one in use; the adapter has an index, the overrides it was built with and those
  there are now; the Dishka provider of the example has a factory for some types (`Factories`)
  and asks for it first, because the container would raise an error of its own. Each has its
  `Contains` and its `GetItem`, and `said` and `lookup` are the last answers of either.
* `ReleaseCut`: commits have a kind, which is their effect on what `release_impact.py` looks at (a
  marker, a `feat`, the exports, a signature). `Prepare` is the run up to the
  version, `ClosePRs`, `PushCut` and `OpenPR` its later steps; maintainers, `main` and
  `tag-release.yml` act in between. What an assessment sees is a choice (`Sights`): the script
  ends if the log cannot be read, but does not ask whether griffe succeeded, and takes an
  `__init__.py` that git does not show for one without exports. `judged` keeps, of a version that
  was assessed as a patch, what was seen. `NextVersion` skips versions that have a tag (`Burned`).
* `Release`: the jobs of `release.yml` with their needs; an upload can be accepted although its job
  then fails; `Probe` is one attempt of `wait_for_index.py`. Versions are numbered in
  the order of their tags; pre-releases, and the dispatch of a whole second run for a tag, are left out.
* `ExamplesRunner`: `CheckContract` finds nothing, finds a violation, or raises: what can be wrong with
  an example is a list in the order of the checks (`ContractOrder`), some of which end the
  script with a traceback (`Raising`: a `pyproject.toml` that cannot be read, dependencies or a dev
  group that are no lists), and what comes first decides. The later readers of the
  checkout (`CopyExample`, `Pin` in version mode) raise for faults of their own, and the operating system may
  fail any step (`OSFails`); `raised` says which it was. The repository mode has the position and
  list checks, with any other quality check that raises as a choice.
* `UvPin`: the two writes are two steps, and a kill can come between any two. The second
  write computes the next minor of its target and raises for one that has none, which leaves the
  first write behind, unless there is no requirement to rewrite: that must consist of digits and
  dots, so a `uv_build` pinned to a prerelease is never matched again.

### `Selection`

`Selected(s, S)`, the elements of a sequence that are in a set, in their order: the list
comprehensions of the code. It is `SelectSeq`, written as a recursive function, because what
the built-in operator computes cannot be expanded in a proof.

### The proof modules (`...Proofs`, `DataLemmas`)

See [Proofs](#proofs).

## Runs

Every "pass" run finishes within two and a half minutes with two workers. `CHECK_DEADLOCK
FALSE` everywhere: each modelled program is finite (every class is defined once,
every publication, send and command is issued once) and really stops when it
is done. That threads do not block each other is a property of its own
(`NoDeadlock`), and that calls end is checked as liveness.

| run | instance | states | shows |
|---|---|---|---|
| `registry_race` | 3 threads, a stream request and a bare one, 4 competing handlers, 2 subscribers, 2 utility calls | 679k | locks and registrations under every interleaving of definitions, look-ups, clears and stats |
| `registry_returns` | 2 threads, a malformed subscriber | 91k | every call returns or raises |
| `publish_delivery` | 2 publications, 3 subscribers, one of which may exit | 391k | `Publish` implements `Delivery`; nobody runs if one cannot be resolved; starts in order |
| `publish_mixed` | the same with a plain `def` subscriber | 128k | a normal return means everybody ran and returned; every publication ends |
| `publish_exit` | 1 publication, 2 subscribers | - | violation, see below |
| `publish_sync` | 2 publications, 3 subscribers, one `async def` | 29k | `PublishSync` implements `Delivery`, loses no `Exception` |
| `outbox` | 3 commands, batches of 2, one database error, one crash, stock beyond the read side's range | 611k | `Outbox` implements `ReadModel`; replay is safe; waiters read their writes; commands are projected; `stop()` works |
| `outbox_stop`, `outbox_retry` | 1 and 2 commands | - | violations, see below |
| `send_onion` | every sequence of up to 3 of 4 entries, a request class and its subclass, 2 sends | 105k | layers nest as declared, around the handler, on every pass |
| `examples` | 3 orders, 8 board requests, 9 vault calls, 2 contexts, 6 desk operations, 3 signups, 5 limited calls, 7 posts | 205k | the stores of the examples add up; each refinement between twins holds; orders settle |
| `library` | 3 consumers, 3 kinds of provider, 2 commits and 2 cuts, 2 tags, 3 example projects, 5 uv versions | 729k | streams, providers, releases, the runner and the uv pin keep their promises; release runs end |

Why the bounds are enough for the cases to happen:

* **Registry**: two threads can compete for one request type while a third
  clears; two utility calls let a clear hit between the two looks of a reader, or a
  clear and a `get_registry_stats` hold locks against each other. Threads are
  symmetric (no property names one). A separate class exists for each way a
  handler definition ends: registered, duplicate, rejected, asserted.
* **Publish**: two publications share subscribers and the ready queue; three
  subscribers let one finish, one be suspended and one not have started when a
  cancellation, an exit or a new registration arrives. Publications are
  symmetric; the runs with liveness use no symmetry.
* **Outbox**: three outbox rows with `BatchSize = 2` give a full batch, a short
  batch, and a row that arrives after a drain; one crash can hit any statement, and
  recovery runs to the end after it; one error likewise. `ReadMax = 1` with
  stock 0 and adjustments of +1 makes the third command overflow the read side.
* **Send**: three layers distinguish an order slip from a reversal, and two
  `next()` calls are a retry.

* **Examples**: the stock covers any two of the three orders but the first two, and the third
  has a declined card: each part fails alone, both fail, and an order that waits can lose its
  stock to another. Of the eight board requests two ask for the same task and two for the list with
  the cache, so that they miss together or one reads what the other stored, around the two
  commands that change what they show; one more get opts out of the cache, and one command is
  refused. The vault calls name one
  document from every kind of caller. Three signups overlap at their mails. The quota is 2
  and five calls come in, so that both routes can meet it, shared or alone.
* **Library**: two asynchronous consumers overlap and a synchronous one is between them,
  each with room for a token before and after a registry change. Three collections let one
  be combined with itself and with a combination. One type has no factory in Dishka, and
  what a provider may be overridden with differs in what it declares, in what it makes, or
  in both. Two commits are enough for one before and one after a cut, two dispatches for one
  to supersede the other. Two tags overlap; a re-run and two probes cover a late index, a
  lost verdict and a burned tag. Three projects at one position are the least that is wrong
  although one pair is right. Checkouts start clean, with one fault of one example, or with
  a rule broken in one and a fault that raises in the others, and one edit can make or mend
  one anywhere. The uv versions are two of one minor, one of the next, a prerelease, and a
  word that is no version.

The bounds on counters are `MaxCalls`, `MaxFaults`, `MaxCrashes`, `MaxListed`, `MaxNext`,
`MaxDispatch`, `MaxAdds`, `MaxClasses`, `MaxCollections`, `MaxCommits`, `MaxCuts`, `MaxTag`,
`MaxReruns` and `MaxEdits`; each is a guard of the actions it limits. `Attempts` is a
parameter of `wait_for_index.py`, not a bound.

## Fairness

* `Registry`: weak fairness of `Continue(t)` for every thread, i.e. CPython
  schedules every runnable thread. Nothing makes a thread start a call.
* `Publish`: weak fairness of `Start` and `Resume`, as the event loop runs what is
  ready, and of a subscriber's wake-up *to its end*: subscribers are user code,
  and the code has no timeout, so that publications end if their subscribers do
  is all that can be claimed.
* `Outbox`: weak fairness of the worker's steps, including its failure on an event that
  cannot be applied, and of the statements of a command that has begun. Nothing
  makes a command be sent, `stop()` be called, a database fail, a process crash, or
  a wake-up arrive: the poll timeout alone must do (`CatchesUp`).
* `Orders`: weak fairness of each order's steps on the loop, and of the thread in the synchronous
  twin. Nobody has to place an order, and `asyncio.run` need not end.
* `Release`: weak fairness of each run's jobs, as GitHub starts a job whose needs have passed
  and every job has a timeout. An index never has to serve what it accepted, and
  nobody has to push a tag or run a failed job again (`JobsEnd`).
* The other examples and parts claim no progress: nothing in them waits.

## Where the code and its documentation disagree

Three runs check a sentence of the repository and TLC finds it violated;
`PROJECT.json` "findings" quotes the lines.

* `publish_exit`: `publish` documents that it raises the `KeyboardInterrupt` or
  `SystemExit` of a subscriber. Both leave the event loop itself; the awaiting
  publisher gets `CancelledError`.
* `outbox_stop`: `run()` is said to go on until `stop` is called. A `stop()` that
  precedes the first step of the worker's task is overwritten by
  `_running = True`, and the worker polls for ever.
* `outbox_retry`: a failed batch is said to be retried. The exception leaves
  `drain` and `run` and ends the worker's task; the batch is retried only after
  the process restarts.

## Proofs

For every value of the constants allowed by the assumptions in the modules, which TLC
evaluates in the runs. No proof uses a bound: sets of threads, publications, subscribers,
requests, calls and consumers may be infinite, and sequences of behaviors, overrides or commits of
any length, unless an assumption named here says otherwise. Those that do:

* finitely many request types (`Registry`), purchases (`Orders`), sign-ups (`Signup`) and posts
  (`OrderForm`), because sums and numbers of them are counted: a program places, signs up and posts
  finitely often;
* limits on counters are natural numbers;
* the sentinels `None`, `NoEntry`, `NoPin`, `Unknown` and `Awaitable` are none of the values they are
  compared with, as Python's are not;
* a container's declarations and the directory of examples are sequences, and a directory
  lists a name once; the faults of a checkout are among those the contract check can meet, and
  minors are numbers.

Every safety invariant, action property and refinement that a passing run checks is stated
by a theorem; the runs check the same properties on the instances above. `DataLemmas` has
the facts about data they share. Where a fact is by induction (over the position in a
sequence, or over the size of a set to be summed), the recursion is a recursive function, so
that its value at each number is determined, and the induction is `InductionOverNat`: a
set of numbers with 0 and with the successor of each of its members has all numbers. It is proved
from `Least`, that a nonempty set of numbers has a least member.

**Registry.** Assumed: the kinds of classes are disjoint, declarations have their
types, `None` and `NotFound` are not classes, there is a thread, and the request types
are a finite set. The steps of the argument:

1. `TypeCorrect`: `TypeOK` with `ArgInv` (the class in `arg` is of the kind the
   label requires). `TypeOK` alone is not inductive: a store step writes
   `Handles[arg[t]]`.
2. `LocksCorrect`: `LockInv`, a lock is owned by exactly the thread inside its `with`.
   Every step must move its thread into or out of `Holds(l)` exactly as it
   takes or frees `lock[l]`: `AcquireSteps` and `ReleaseSteps` do that once for all
   steps of a kind, over the tables `HoldsTable` and `WaitsTable`.
3. `DeadlockFree`: the locks are always taken in the order request, handler,
   notification, so the holder of the last one taken is not blocked.
4. `ReadsStayFresh`: `FreshInv`, what a thread read inside its lock
   still holds until it leaves it. `SubscriptionsAppendOnly` (`NoLostSubscription`)
   and `StatsConsistent` (`StatsCorrect`) are not inductive without it. It needs 2:
   whoever else writes would have to own the same lock.
5. `OneHandler`: `HandlerNeverReplaced`, from the check and the store being in one
   critical section.
6. `OnlyFittingHandlers`: `RegisteredHandlersFit` through `FitInv`, which adds what a
   hook has already established when it waits for the lock. The response type
   read may be cleared meanwhile; the theorem says that does not matter.
7. `DefinitionsSurvive` (`RegistrationsSurvive`): `SurviveInv` says that a class is recorded as
   registered exactly while dispatch finds it, a subscriber at exactly one position. A store
   must therefore not find its own class there already (`OneCallPerClass`, from `CallInv`: one call
   defines a class, and nobody else is between its start and its verdict), must not replace
   another (4 and 5), and the tuple stored must be the tuple read, longer by one (4).
8. `LooksAgree` (`LooksFailOnlyOverClear`): `LooksInv` is what the first look saw, weakened by
   "or somebody has been cleared since". It is kept because only a clear takes anything
   away (7), and a response type only comes from its own request's definition.

**Outbox.** `AlwaysConsistent` is the inductive invariant `IInv`:

* `Consistent`: the committed products describe the whole outbox, the committed
  views its first `checkpoint` rows;
* `TxnInv`: what an open SQLite transaction contains, at each of its statements;
* `BatchInv`: the uncommitted views of an open batch describe the rows up to
  the last one applied, and the batch is still the next one;
* `Types`.

The refinement needs all of it: that `Commit` is one append of the abstract history is
`TxnInv` at the last statement, that `CommitBatch` is one advance is `BatchInv`.
TLC checked `IInv` as an invariant first. `Implements` then maps each step to a
step or a stutter of `ReadModel`. The facts about data (`DescribesNext`,
`ApplyDescribes`, `TellsDescribes`) are lemmas without induction: `Catalog` defines
"the latest row that mentions a product" by a quantifier. `WritesAreRead` (`ReadYourWrites`) adds
`WaitInv`: the position a committed command got is in the outbox, and that of a command whose
wait is over at most the checkpoint. The last event about its product up to the checkpoint
exists because the positions are well-founded, and it is the command's own or a later one.

`ReplaysAreSafe` (`ReplayIsSafe`): if the views tell `n` rows, applying rows `k + 1` to `n` again, one
by one, leaves them as they are. By induction on the rows applied: after row `m` the views
tell a product's events up to `m` if one after `k` mentions it, and still those up to `n` otherwise;
at `m = n` that is one and the same. `Typed` (`TypeOK`) adds to `IInv` that the tables are functions and that an
open transaction is some command's (`Idles`).

**Publish.** Assumed for `Whole` and `Implements` is `SyncForm = {}`: that every subscriber is an `async def`, as the
asynchronous mediator documents. (With a plain `def` among them `gather` is given an argument it rejects,
after earlier subscribers were started or not; `publish_mixed` checks what still holds.)
Their invariant `PublishInv` is `Types` with

* `Addressed`: a publication has a task for exactly the subscribers it resolved, and none of
  them is unfinished unless it waits in `gather`;
* `Queue`: the ready queue holds the unstarted tasks, each once;
* `Ordered`: of one publication, in the order of registration, so that starting the head of the
  queue never overtakes a sibling, however many publications share the queue;
* `Cancellations`: only a cancelled publication has a subscriber that never ran.

`Whole` (`DeliveryIsWhole`) is a consequence. For `Implements`, a start, a suspension and an
end of a task are one move (`Moves`), mapped to `Start`, to a stutter and to `End`; `Resume` maps to
`Close`, with the verdict `Delivery` prescribes because of `Addressed`. `ReturnsDeliver`
(`ReturnMeansDelivered`) has no such assumption. Its invariant `MixedInv` is what mixed forms leave of
`PublishInv`: the ready queue holds unstarted tasks, each once, though their publication may have ended in a
`TypeError`; and a call that has not been made has no tasks. `Typed` is for mixed forms as well.

**PublishSync.** No assumption on the form of the subscribers. `Loop(p)` says what the position of a
publication in its loop tells about everybody in its snapshot: those before it have ended, at most the
one at it runs, nobody after it has been touched; the collected exceptions are
empty exactly if nobody raised. `Implements` takes the commitment of a publication, to
refuse, to skip or to open, at its snapshot, before it has resolved anybody (nobody changes
what the provider has), so that `Resolve` is a stutter; the end of a call that raises a
`BaseException` is the one step that ends a subscriber and the publication at once (`Abort`).
`GroupIsComplete` (`GroupCarriesEveryFailure`) adds `Collected`: what has been collected at a
position of the loop is the selection, from the part of the snapshot before it, of those that raised. The
next call appends to both sides or to neither (`SelectedAppend`).

**Send.** `compose` folds the behaviors into nested closures from the inside out. `Chain` gives that
fold a name for every number of behaviors composed (`ChainExists`, `ChainLayers`). `Onion` says that the
calls open in a send are the outermost layers of the chain of its applicable behaviors, one each: a call
of `next()` opens the next layer (`OnionNext`), whatever the layer does with the answer closes
it (`OnionLeave`), and a retry opens the same one again. `SendsKeepTheOnion` (`OnionOrder`) and
`SendsAreTyped` (`TypeOK`) are consequences, for overlapping sends and any number of `next()` calls.

**Examples** (`ExamplesProofs`). Each application has an invariant of its own, proved of its own
specification. `ExamplesInv` is their conjunction, and `OneRuns` says that a step of `MCExamples`
is a step of each application or leaves it alone: so the theorems about the run (`StoresAlwaysAddUp`,
`RecordsAreTrue`, `ExamplesAreTyped`) take them together.

*Orders* (`OrdersAlwaysAddUp`). `OrderHolds(o)` is what the place of an order in its code says about its two
parts, `StockAdds` that the stock of an item is what it was less the sum reserved, `IdsFollow` that
ids are given out without gaps. Reserving changes the sum over purchases at one place
(`SumBump`), and only if the stock covers it.

*TaskBoard*. `BoardMirrorsItsTwin` (`MirrorsSyncBoard`): a request is mapped to the twin's single step at its
answer. That the answer is the twin's although the request waited needs `Waits` (a command that waits
is authorized, and nobody has its answer yet) and `CacheHolds` (an entry names tasks of the store, and
that of a get its own task, so `DoneOf` looks at the same objects and a second miss of a get stores
the same entry). A list that waited is the twin's if it finds no entry or did not want one, and is
`Refills` otherwise. For the trace, `Traces` gives its form at each stage.

*VaultThreads*. `Progress` says what a call has behind it at each step: it was let through by every
behavior, and an edit that has loaded its document was authorized for it. `Guarded`
(`VaultIsGuarded`) needs it because the save may come long after the check. `MirrorsAsync`
simulates: the steps up to the last one stutter, and the last one is the whole call of the
asynchronous vault, because nothing that another thread changes in between takes part in the decision.

*Scopes*, *OrderDesk*. Each registration in a unit's log stands between a begin and a commit
(`Sound`), wherever later dispatches go on; `Accounts` counts markers over all logs, a sum that a dispatch moves at the log of its context
only. At the desk each order's status is determined by the set of operations that took effect on it
(`EffectsHold`), and the trail by those that ended or started (`TrailHolds`), which gives the balance.

*Signup*, *RateLimit*, *OrderForm*. Ids are a bijection between those who have one and the first
numbers; a limiter has counted the sum of the calls of its routes and let the least of that and the quota
through; the id counter may lose increments to a race but is never ahead of the orders, and
where no two threads meet in the handler it is their number (`InTurn`).

**Library** (`LibraryProofs`). In the same way: one invariant for each part, `LibraryInv` for all of
them, and the theorems about the run (`ProvidersKeepFaith`, `ScriptsSayTrue`, `LibraryIsTyped`).

*Streams.* `Generators`, `PrefixOfScript` and `Emitted` tie the history of what was produced to
the position of each generator: `StreamsFollow` (`StreamsFollowTheirConsumers`).

*Release.* `Sound` (`ReleasesAreSound`): `OrderedIn(v)` is what a job's progress says
of the jobs it needs, which re-runs keep as they only return failed jobs to waiting. `Drafted` says
that the notes of a Release start after nothing or after a published one; it needs that
a Release is published once, hence the cardinality in it.

*ReleaseCut.* `CutsSound` (`CutsAreSound`): a version that was assessed as a patch has its predecessor
tagged, and nothing that its assessment saw breaks between that tag and its cut (`Justified`, by
`Breaks` at `judged`). That has to
hold of a version from its assessment through its branch, its pull request and its merge to its tag
(`AllJustified`), while `main` grows and other tags land. The property speaks of the highest lower tag; that
it is the predecessor is `PredecessorIs`, from the lexicographic order of versions. `OneOpen`
covers the open pull requests, with the dispatch that has closed the others.

*Providers* (`ProvidersAreFaithful`). The index is at all times the one of the overrides it was built with
(`IndexIs`), in which the last declaration of a type wins (`LastOfType`, on `Selected`). A collection is `Faithful`
to what it was made of whatever is combined later; a combination selects from the concatenation of both
operands, which is the concatenation of both selections (`SelectedConcat`). `Held` is the set of
types the provider in use has, which nothing changes but taking another into use; `LookupStands` and
`AnswerStands` tie the last look-up and the last answer to it, each by itself, so the two agree in
whatever order they came.

*ExamplesRunner* (`ExitCodeIsHonest`). What the run says at its end depends on what it did to each
example: `RunStands` ties the results to the position in the list, `SeenClean` says that an example that
passed the check is without faults unless somebody has edited since, `BegunClean` that a suite is
begun only when all examples are, `PassesAfterSync` that a `PASS` has a sync behind it. A traceback
half-way through a suite is then left to an edit before the check or between the check and the use, or
to the operating system.

*UvPin*. `HalfWritten`: between the two writes the pin already written is the target, so that only a
kill there, or a target the second write cannot use, parts them (`PinsAgree`).

**Only model-checked**: liveness (`EveryCallReturns`, `EveryPublicationEnds`, `CatchesUp`,
`StopTakesEffect`, `OrdersSettle`, `JobsEnd`), which depends on fairness and `ENABLED` and is
out of the prover's reach. The three sentences that runs find violated are TLC's by nature, a
theorem cannot show a counterexample.

## Not modelled

* `clear_handler_registry` clears handlers and subscribers in two critical sections,
  which `Registry` has, but no property mentions the state in between:
  the code promises nothing about it.
* Wording of errors, source locations in the handler registry, `__repr__`,
  typing stubs.
* Signature inspection (annotations, forward references): one predicate per class.
* Crash loss inside SQLite or DuckDB: both are assumed to commit atomically and durably.
* Examples 010, 060, 070, 090 and the dashboard of 020: one atomic handler over a dictionary or
  a table, adapters that translate requests, an exception-to-status mapping like that of 075.
* Benchmarks (`scripts/benchmark.py`, `130-cqrs/.../benchmark.py`), `scripts/update_context.py`,
  the documentation site and the workflows that only run checks on one commit: nothing is kept
  between their runs.
* `errors.py`: exception classes; the models keep which one is raised where a property needs it.
* Of `run_examples.py`, the quality checks other than names and lists (each reads one
  file and reports), and the printed matrix. Of the release workflows, the text of the impact report and
  the steps that install tools.

One hazard listed in `PROJECT.json` has no property, because what it describes does
happen and nothing in the repository forbids it: the gap between the two critical sections of
`clear_handler_registry`. Others happen too, and their properties say how far they go: ids shared
by threads that meet in the handler of `OrderForm`, the open transaction of a
cancelled request in `TaskBoard`, a payment without an order in `Orders`, a second refund in
`OrderDesk`; in `ReleaseCut` a patch over a changed signature when griffe failed and printed
nothing, and the clean-up job of `tag-release.yml`, which deletes a branch by its name and with it
a newer cut of the same version; a traceback of `run_examples.py` for a fault its contract check
cannot report; and pins that `update_uv.py` leaves apart when it is killed between its writes or
given a target that is no version, or behind when it once pinned a prerelease.

## Plan

Done, in this order of importance: `Registry` with its proofs; `Delivery` with `Publish` and
`PublishSync`, and that both implement it; `Outbox` with `ReadModel` and its proofs; `Send`; `Streams`
and `Providers`; the examples; the release workflow and the scripts around it; a theorem for
every safety property, action property and refinement of the passing runs.

Next, proofs only:

1. What of `DeliveryIsWhole` and `ImplementsDelivery` holds of `Publish` with plain `def` subscribers
   mixed in, to replace `SyncForm = {}` by a weaker assumption.
2. Shorter proofs in `ExamplesProofs`: what `Orders`, `Signup` and `OrderForm` each show about numbers
   given out belongs in `DataLemmas`.
