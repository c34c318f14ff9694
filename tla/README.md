# Verification of the cart service

TLA+ models, TLC runs and TLAPS proofs for the Go service in `src/`: shopping
carts in MongoDB, a Redis lock per user, and a Kafka consumer that marks items
whose product goes out of stock.

## The system

| Component | Source | State | Operations |
|---|---|---|---|
| Distributed lock | `internal/lock` | Redis keys `lock:<user>` with a uuid and a time to live | `Lock`, `Unlock` |
| Cart repository | `internal/repository/mongodb`, `internal/domain` | collection `carts`, one document per user | `AddItem`, `RemoveItem`, `UpdateItem`, `ClearCart` (under the lock), `GetCart` |
| Event effects | `internal/repository/mongodb` | `carts` and `processed_events` | `MarkItemAvailable...`, `MarkItemUnavailable...` (one transaction, no lock) |
| Catalog consumer | `internal/events` | Kafka offset of the group, the reader's cursor, the message in hand | `Run`, `Handle`, `Close` |
| Cart service | `internal/service/cart` | none | validation, then the repository |
| gRPC handlers | `internal/transport/grpc` | none | user id from metadata, errors to status codes |
| HTTP endpoints | `internal/transport/http` | log level | health, readiness, log level |
| Lifecycle | `internal/app`, `cmd/cart` | open clients, running servers, consumer goroutine, error channel | `New`, `Run`, `Shutdown` |
| Configuration, observability | `internal/config`, `internal/observability` | - | loading, logging, metrics, traces |

How they interact: a gRPC handler calls the service, the service validates and
calls the repository, and the repository takes the lock of the user in Redis,
sends one or two `UpdateOne` statements to MongoDB and releases the lock in a
`defer` that uses the same context. The consumer goroutine fetches a message,
hands it to `Handle`, and commits the offset. `Handle` calls the repository's
Mark methods, which write the same carts **without** the lock, inside a MongoDB
transaction that also records the event id.

What is hard here:

- many processes and goroutines share Redis and MongoDB; a lease may end while
  its owner works, since nothing bounds the work or renews the key;
- replies get lost: a command may have been executed although it failed;
- contexts are cancelled between any two steps, and `Unlock` needs the context;
- a crash can fall between two statements, between marks and commit, between
  `Lock` and `Unlock`;
- Kafka delivers again, and out of order with respect to messages that failed;
- after a rebalance two processes may work on the same message;
- two kinds of writers of a cart rely on two different mechanisms.

What makes each component correct: the lock excludes (up to its time to live)
and is never left behind; the repository looks atomic to its callers, lists a
product once and loses no addition; a status code tells the client the truth
about what happened; the consumers of a group apply each event at most once and
in one step, skip nothing by themselves and never get stuck; together the two
writers do not undo each other; and the process ends without taking the clients
from anybody who works, and without goroutines that block for ever.

## Modules

| Module | Models | Correspondence |
|---|---|---|
| `RedisLock` | `internal/lock` | `redis` is the keyspace, `pc` the place of a call's goroutine, `attempt` the loop counter; one action per outcome of `SetNX`, of the loop, and of the script. `unanswered` are the commands whose reply is lost, which Redis may execute at any later time. A call stands for the uuid it draws. |
| `CartStore` | documents and updates | `carts[u]` is a document or `NoCart`; `cart[p]` the entries of product `p` in array order. One operator per update document. |
| `CartRepository` | the five repository methods | EXTENDS `RedisLock` and `CartStore`. `step` tells `$inc` from `$push` in `AddItem`; every statement is an action of its own, so everything can happen between two of them. |
| `AtomicCart` | what the repository promises | Abstract: a call takes effect in one step, at most once. |
| `CartApi` | `internal/service/cart` and the gRPC handlers | EXTENDS `CartRepository`. `rpc` is the request off the wire, `code` the status returned; `RefuseUnauthenticated`, `RefuseInvalid`, `Enter` and `Respond` (with `MapError`) are the handler's ways through. |
| `CatalogConsumer` | `internal/events` and the Mark methods | `log`, `committed` are the partition; for each member of the group (a process of the service) `cursor` is its reader, `msg` and `phase` its goroutine, `snapshot` its transaction; `undecided` are the transactions of a `Handle` that failed or a process that died, which MongoDB may still commit or abort. `Assign` and `Revoke` are the rebalances; a member goes on with its message after the partition was taken from it. |
| `AtomicEvents` | what the consumers promise | Abstract: the marks of an event are set in all carts in one step, at most once. |
| `CartSystem` | both writers of `carts` | EXTENDS `CartRepository` and `CatalogConsumer`; a step is one of a call, of a consumer, of the catalog or of MongoDB. `fresh` and `owed` are histories: items an event could not see, and carts an event must not pass over. |
| `AtomicSystem` | what the service promises of its carts | Abstract, EXTENDS `AtomicCart`: its calls, and events each of which sets its marks at most once, in one step, in all carts that have held its product since it was published. |
| `AppLifecycle` | `internal/app`, `grpcapp`, `httpapp`, `cmd/cart/main.go` | `main` is where the main goroutine stands in `New`, `Run`, its `select` or `Shutdown`; `server`, `consumer`, `rpc`, `checking` the other goroutines, `errCh` the number of errors buffered, `open` the clients that are usable. |
| `MC...` | instances for TLC | requests, messages, bounds. |
| `...Proofs` | theorems about the module of that name | `CartStoreProofs` holds the lemmas about documents that three of the others use. |

Redis, MongoDB, Kafka and their clients are not part of the source; they are
modelled from their use, generously: Redis may expire or lose a key at any
moment, and execute a `SET NX` or the script whose reply is lost never, once or
several times, while its caller waits, works or has long returned
(`LosesReply`, `StraySetNX`, `StrayScript`); MongoDB may execute a statement
whose reply is lost, even after its caller has returned (`inFlight`,
`LateWrite`); a transaction reads the snapshot of its start and aborts on a
write conflict, and one whose sender gave up or died is committed later or
never (`LateCommit`, `LateAbort`); of two open transactions that insert the
same event id the later aborts;
the reader's cursor moves on with each fetch and returns to the committed
offset only when the partition is assigned; a commit may come from a member
that has lost the partition; new RPCs may still begin while `GracefulStop`
drains the server.

Variables marked `history` in the modules record the past for the properties
and are read by no action. Operators such as `DeleteAny` or `NeverRecorded`
that no action uses are deliberate errors, each next to the definition it would
replace: with the replacement made TLC finds the property violated that
`PROJECT.json` names beside it, which shows that the property can fail.

## Runs

| Run | Question | Bounds |
|---|---|---|
| `MCRedisLock` | Can two calls work under one key, can a key be taken from its owner, does `Lock` return, what leaves a key behind, does an owner free its key without an expiry? | 3 calls, 1 key, 2 attempts, at most 1 call with a fault |
| `MCCartRepository_safety` | When can a product be listed twice? Is an addition lost or counted twice, leases or not? What makes a cart unreadable? Does the repository keep to the lock protocol? | 3 additions or removals of quantity 2 on a cart, `Int32Max` 4, at most 1 faulty call |
| `MCCartRepository_atomic` | Is the repository an `AtomicCart` while leases hold? | 3 calls of any operation, at most 1 faulty |
| `MCCartRepository_width` | Do stored quantities fit `int32`? **No** | 3 additions |
| `MCCartApi` | Does a status code tell what happened, can an invalid request reach the store, does a known cart become unknown, is every RPC answered? | 2 RPCs out of 10 (each method valid, and failing each of its checks), no cart yet, or one with an item if no call adds it; at most 1 faulty call |
| `MCCatalogConsumer_consumer` | Is redelivery harmless, is anything skipped, what can be reordered, is the end of the log reached? | 1 member, 3 messages, 3 assignments |
| `MCCatalogConsumer_group` | Is an event applied once and in one step when members overlap and commits come late? | 2 members, 2 messages, 3 assignments |
| `MCCatalogConsumer_retry` | Is a failed message fetched again? **No** | 1 member, 3 messages, 3 assignments |
| `MCCatalogConsumer_handled` | Is only processed work committed? **No** | as above |
| `MCCartSystem` | Do transactions and calls disturb each other, whatever leases expire? | 2 additions or removals, 1 member at work, 2 messages already published, no cart or one with the item |
| `MCCartSystem_atomic` | Are both together a cart with atomic calls and atomic events while leases hold? | 2 additions or removals, no cart at first, 2 members at work, 2 messages published on the way, each once |
| `MCAppLifecycle` | From start-up to the end: does a call, a probe or `Handle` lose its clients, is a goroutine stuck on `errCh`, does `Shutdown` end, does a failed server end the process? | 2 calls, 1 probe |

Why the bounds suffice. Three calls are the least with an owner whose lease
expired, the call that took the key after it, and a third that profits from a
wrong `Unlock`. One cart is enough for the repository, since no statement
touches two, and one key for the lock, whose steps touch one each. `Int32Max`
is 1 to 4; where sums matter, additions reach and exceed it. A call has a
*fault* (`Unlucky`, bound `MaxUnlucky`) when its context is cancelled, its
process crashes or a command of it gets no reply from Redis; it is *faulty*
(bound `MaxFaulty`) also when its statement is or was executed late, and in
`MCCartApi` when its lease expired. The number of faults of that call, other
expiries, and errors of Redis and MongoDB are not bounded.
One such call is enough to leave a key, a statement or a command behind for the
others. Three messages are a failed one, a later one of the same product, and
one that follows both; three assignments are a first start, a restart and a
rebalance (`MaxLog`, `MaxAssigns`). Two members are the old and the new owner
of the partition. `AllAtWork` keeps the members of `MCCartSystem` from stopping,
losing the partition or failing twice, which `MCCatalogConsumer_group` covers,
and its calls from having a fault, which `MCCartRepository_safety` covers;
`CommitsArrive` leaves out the loss of a committed offset, which nobody would
read. What is left is what the two writers can do to each other, from a cart
that is in nobody's hands. Where there are two members, they may hold different
messages or the same one. For the safety properties of the passing runs the
bounds matter less, since all of them are proved without (see Proofs).
Deadlock is not checked: all calls may be over and the process has ended, which
is where the system may stop.

Fairness. Goroutines run, and calls to Redis and MongoDB return or time out in
the client (`LockFairness`, and `RepoFairness`, which `ApiFairness` uses). No
key needs to expire: a method returns even if a key stays for ever, as the loop
of `Lock` is bounded, and an owner without a fault frees its key itself.
`ConsumerFairness` is that of the
goroutine of `Run` in each process. `LifeFairness` lets main run, its deadline
pass and the servers send their errors; it assumes nothing of calls, probes and
`Handle`, which may never return. No fairness is assumed of clients, the
catalog, the group's coordinator, cancellations, crashes, restarts, late
commands of Redis or late decisions of MongoDB.

`RefinesAtomicCart` is checked and proved under `Timely`: no key expires while
its owner works and no statement outlives its call. The code does not ensure
this: the work has no deadline (`grpc.timeout` in the configuration is not
used). What is left without it is said by `DuplicateOnlyAfterOverrun` and
`NoLostAddition`. For the two writers together the same holds of
`RefinesAtomicSystem` under `TimelyStep`; everything else about `CartSystem`,
and `RefinesAtomicEvents`, has no such condition.

## What the runs found

- `StoredCartsDecode` (`domain/product.go:18`): `$inc` widens a sum beyond
  `int32` to 64 bits; the driver then cannot decode the cart into
  `CartItem.Quantity`, and `GetCart` fails until the item is changed or removed.
- `FailedIsFetchedAgain` (`events/consumer.go:102`): the comment expects the
  next `FetchMessage` to return the message whose handling failed. The reader's
  cursor has passed it; only a rebalance or a restart brings it back.
- `CommittedWereHandled` (`events/consumer.go:108`): the commit of the next
  message covers the failed one, which is then never delivered again.

Two properties hold only with the exceptions they name. `FlagsFollowLastMark`
excepts items that entered a cart after the event's transaction began: they
keep their first flag until the next event of the product, since `AddItem` does
not look at the stock. `AtomicSystem` makes the corresponding exception: its `Mark`
must reach every cart that has held the product since the event was published
(`owed`), and may leave out one that got the product later. `ShutdownEndsUnlessHeldUp` excepts calls that never
return: `GracefulStop` has no deadline, `shutdown_timeout` does not bound it,
and a second signal is swallowed by the channel of `NotifyContext`.

## Proofs

All theorems are about every value of the constants, from the assumptions named
in the modules (`LockAssumption`, `StoreAssumption`, `RepoAssumption`,
`ApiAssumption`, `ConsumerAssumption`).

`RedisLockProofs`:

- `LockTypeCorrect`: the type invariant;
- `ExclusionHolds`: `Exclusion` does not follow from itself, because it says
  nothing about a single call that works. The inductive invariant
  `HolderOrOverran` does: a call that works either still has its uuid in the
  key, or its key expired under it. `TakeKeepsHolders` is the lemma for the
  actions that set a key: a free key has no owner to disturb;
- `OwnershipHolds`: no step of another call removes or replaces a key, from
  the type invariant and one case per action;
- `LeftByFaults`: `OnlyFaultsLeaveKeys`, from `OwnersRelease`: the owner of a key
  has its script still to run, or a fault did or will keep it from doing so. In
  the loop of `Lock` a call owns a key only by a command whose reply it lost.

`CartRepositoryProofs`:

- `RepoFollowsLock`: a behaviour of the repository is one of `RedisLock`. Each
  action of `CartRepository` contains an action of the lock or leaves its state
  alone (`RepoStepIsLockStep`); those in which Redis alone
  acts move no call (`RedisAlone`). `RepoExclusion` then takes the type invariant
  and `Exclusion` over from the lock;
- `RepoTypeCorrect`: the type invariant. It needs `ReadsStayIdle`, since only a
  call that is not a `GetCart` has a statement to send;
- `DuplicatesExplained`: `DuplicateOnlyAfterOverrun`, the property the lock is
  there for. Its inductive invariant `SingleEntries` adds what the code relies
  on between its two statements: as long as no lease of an `AddItem` of the
  product expired and no such statement came late, the cart lists the product
  at most once, and not at all while a call under the lock is about to push it.
  The step of another call in between is excluded by `Exclusion` (`WorkStep`);
  that only a push adds an entry, and one, is `ExecutesCounts`, which rests on
  one lemma of `CartStoreProofs` for each update document;
- `NoAdditionIsLost`: `NoLostAddition`, with no condition on leases. What a cart
  holds of a product and what the calls added of it are not summed up by
  recursion, which could not be proved about, but as the sizes of two sets: a
  unit of an entry is a pair of its index and a number up to its quantity
  (`Units`), a unit of an addition a pair of the call and such a number
  (`AddedUnits`). A statement that takes effect adds a block of as many new
  pairs to either set (`AdditionExecuted`, `AdditionCounted`). Beside
  `UnitsAddUp` the invariant needs `AtMostOnce`: a statement that may still be
  executed has not been, in time or late;
- `FittingCartsAreReadable`: `FittingCartsDecode`, the other side of the finding
  about `int32`. An entry's units are among those of the cart, so a quantity
  that cannot be decoded needs a sum of additions that does not fit.

`AtomicCartProofs`: `RepoRefinesAtomicCart`, the refinement. Under `Timely` two
more facts are inductive: nothing is late (`OnTime`) and a call that has not
finished its work has neither an effect nor an answer (`OpenUntilDone`). With
`SingleEntries` they give that the statement which changes a cart does what
`AtomicCart` does in one step (`StatementIsResult`); every other step of the
repository leaves the abstract state alone or answers a call (`StepIsAtomic`).

`CartApiProofs`: behind the handlers is the repository (`ApiFollowsRepo`), so
all of the above holds of the service. `ApiTypeCorrect` carries the types over;
it rests on the validation, which keeps quantities positive. `CodesAreTrue`
needs `RepliesTellEffect`, what a reply of the repository says about statements
executed or in flight, and `CartsStayKnown` needs `FoundStaysFound`: a cart that
was found exists for good. The theorems start without carts, the run also with
one.

`CatalogConsumerProofs`, for any carts to begin with:

- `ConsumersAmongWriters`: the same carts may have any other writer that leaves
  documents behind and lets the consumers' state alone (`SharedSpec`). Its
  writes make transactions abort, at any moment and any number of times; still
  each event takes effect at most once, and only what was delivered or passed
  over by a start is committed or late. Its invariants are `SharedInv`, of which
  `OpenEvents` is the part about open transactions, those of the members and
  those left to MongoDB (`OpenTxs`), that no other writer can disturb (the event
  is not recorded, and no other open transaction inserts it), and
  `HistoryInv`: everything below the committed offset, below a cursor and below
  a message in hand has been handed to `Handle` or was passed over;
- `EffectsOnce`, `CommitsAreDelivered` and `LateWereSkipped` are what this says
  of the group alone (`GroupIsShared`);
- `GroupRefinesAtomicEvents`: without another writer the group implements
  `AtomicEvents`. `SeesItems` adds to `SharedInv` that the snapshot of an open
  transaction shows the items the carts have now; a commit then is `Apply` of
  its event (`EffectIsApply`), and everything else stutters.

`CartSystemProofs`. Each step of `CartSystem` is a step of one writer, and leaves
the state of the other alone except for the carts (`OneWriter`):

- `SystemTypeCorrect`: to either writer, the other only writes documents. The
  system is a behaviour of `RedisLock` (`SystemStepIsLockStep`), so `Exclusion`
  holds of it;
- `ConsumersAreUndisturbed`: the system is a behaviour of `SharedSpec`, with the
  calls as the other writer;
- `SystemDuplicatesExplained` and `NoAdditionIsUndone`: `CallsInv`, the
  invariants of the repository (`SingleEntries`, `AtMostOnce`, `UnitsAddUp`).
  They survive a transaction because it keeps the entries and quantities of
  every cart as they are when it commits (`SameAmounts`);
- `MarksKeepAllAmounts`, from `TxMarks`: what a transaction read may be old, but
  a cart that it writes has not changed since, or it would have aborted;
- `FlagsFollow`: a statement keeps the flags of the entries that it finds
  (`StatementKeepsFlags`), a transaction makes its event the last one of the
  product and of no other (`LastMarkSet`, `LastMarkStays`);
- `SystemRefinesAtomicSystem`: under `TimelyStep` the system implements
  `AtomicSystem`. A step of a call is what it is in `AtomicCart` (`StepIsAtomic`
  of `AtomicCartProofs`, whose invariants `OnTime` and `OpenUntilDone` no
  transaction disturbs), the first publication of an event is `Publish` (`CatalogIsPublish`),
  a commit is `Mark` of its event for the carts its snapshot showed with the
  product (`EffectIsMark`), and every other step of a consumer stutters. That
  those carts include the owed ones is `OwedInv`: the snapshot of an open
  transaction is younger than the publication of its event, so that a cart which
  has held the product ever since is in it.

`AppLifecycleProofs`: `CallsKeepTheirClients`, `HandleKeepsItsClients`,
`ProbesKeepTheirClients` and `AllReportsFit` from `LifeInv`, which says for each
part of main's way which clients are open (`EquippedInBetween`), who is not yet
or no longer at work (`IdleAtStart`, `CallsOver`, `ConsumerOver`, `ProbesOver`),
and that each buffered error came from a goroutine that has ended.

Only model-checked: liveness, which needs fairness and ENABLED
(`LockReturns`, `OwnerFreesKey`, `RpcsAreAnswered`, `ReachesTheEnd`,
`ShutdownEndsUnlessHeldUp`, `FailureEndsProcess`). Of the safety properties of
the passing runs none is left.

## Not modelled, and the plan

Not modelled: configuration (read and validated before anything runs),
metrics, logs and traces, the log level and the constant answer of `/health`,
TLS files, prices and timestamps (no decision depends on them), the order of the
products in a cart, several partitions (no step relates two), real time. What a
`FetchMessage` error does, sleeping and fetching again, changes no state.

What could follow:

1. The composition of `AppLifecycle` with `CatalogConsumer`, whose `Stop` and
   `Exit` it would refine: a `Handle` that is cut off when MongoDB is
   disconnected is today a `HandleFails` of any moment, which may leave an
   undecided transaction.
2. Clients that repeat an RPC after `Internal`: `AddItem` is not idempotent.
