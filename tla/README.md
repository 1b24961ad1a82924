# A verification project for mealroute

mealroute is two Go services. The *platform* takes orders from customers and
keeps them in PostgreSQL; the *venue* service is a restaurant's kitchen, which
keeps its read model in memory and talks to the platform over HTTP. This
directory holds TLA+ modules of what the two do to orders, the TLC
configurations that check them on small instances, and theorems about them that
TLAPS proves for every instance.

Paths below are relative to the repository's root. `service.go` alone is
`services/platform/internal/service/service.go`, `repository.go` alone is
`services/platform/internal/repository/postgres/repository.go`, and "the
venue's `service.go`" is `services/venue/internal/service/service.go`.

## 1. The system

### Components, their state and their operations

| Component | State | Operations |
|---|---|---|
| Order lifecycle rules (`domain/order.go` of both services) | none | which status may follow which, for the customer, the platform and the venue |
| Platform: order commands (`service.go`, `repository.go`) | tables `orders`, `order_items`, `order_status_history`, `idempotency_commands`, `order_events` | create, cancel, accept, reject, update status; each with an `Idempotency-Key` |
| Platform: event journal (`repository.go`, `ListOrderEvents`) | table `order_events` with the identity `sequence_no` | a venue reads its events page by page, after a cursor |
| Venue: sync worker and local orders (the venue's `service.go`, `repository/memory`) | local orders, product mappings, cursor, processed marks, retry queue, all in memory | `SyncWithPlatform` on a ticker; `UpdateOrderStatus` of an operator |
| Platform: menu publication and cache (`service.go`, `repository.go`, `cache/redis`) | `venues.menu_version`, `menu_items`, cached menus | `SyncPartnerMenu`, `GetMenu` |
| Platform: order pricing (`service.go`, `CreateOrder`) | none | line totals, subtotal, fee, and the bounds on them |
| Pagination of both services | opaque keyset cursors | lists of orders and venues |
| Platform: venue authentication (`service.go`, `repository.go`) | table `venue_api_keys` | one lookup per request; a start replaces the bootstrap row |
| Platform: processes and HTTP layer (`cmd/server`, `config`, `httpapi`, `api/platform`) | phases of a process, requests under way | start, serve, stop, fail; validate, bind, authenticate, decode, serve, answer |
| Platform: in-memory repository (`repository/memory`) | the tables as maps under one mutex | the same calls as PostgreSQL's; only tests use it |
| Venue: HTTP layer, configuration, process | none beside the read model | reads of the menu and the orders, start and stop |
| Generated API types of both services | none | data of requests and replies, wrappers |

### How they interact

A customer creates and cancels orders on the platform. Each change of an order
appends one event to the journal, in the transaction of the change. The venue's
worker publishes the venue's menu, learns which platform product stands for
which of its items, retries the events that failed before, and pulls the next
page of the journal into its local orders. An operator changes an order by a
request to the venue, which reads its local order, calls the platform, and saves
the copy it holds once the platform has confirmed.

### What is hard about it

* **Handlers decide outside the transaction.** Every handler reads the recorded
  answer and the order with single statements, prepares the whole new snapshot,
  and only then opens a transaction that locks the order and compares its
  status with the one the decision was made on.
* **Retries while the first delivery is running**, commits whose acknowledgement
  is lost, keys used again with another body.
* **Waiting.** Row locks of orders (`FOR UPDATE`), of venues (`FOR SHARE` by a
  create, `FOR UPDATE` by a menu snapshot), and two unique indexes on which an
  insert or update waits for an uncommitted twin.
* **Numbers drawn before the commit.** `sequence_no` is taken when an event is
  inserted and becomes visible with the commit.
* **Two writers of one read model.** The worker and the operators' requests hold
  the venue's mutex for a single call of the repository and nothing longer.
* **Clocks.** The venue compares the platform's `updatedAt`, which is the wall
  clock of whichever process handled the change.
* **Processes that replace each other** over one database: each start rewrites
  the row of the bootstrap key, while requests of the other process are between
  their arrival and their authentication, in a transaction, or not yet read.
* **A venue that forgets everything** when it restarts, and calls that are lost
  on the way there, on the way back, or arrive after the caller gave up.

### What makes each component correct

* *Order commands.* Orders follow the documented lifecycle; each command acts at
  most once; its answer is recorded with its effect and is the same for every
  retry; nobody is told of an order that is not theirs; every command is answered.
* *Journal.* It tells the whole history of every order, and reading it by pages
  never steps back on an order nor drops an event.
* *Menus.* A version is one menu wherever it is met; nobody is shown an older menu
  than before; an order costs exactly what the menu in the customer's hands says;
  a venue can translate the menu that is published.
* *Lists.* Whoever reads a list to its end was given everything that was in it all
  the time, and nothing twice.
* *Server.* A request acts for a venue only with a key that was the venue's own
  while it was under way; a success means that what was asked for happened to the
  caller's own order; a process that was told to stop ends.
* *Repository in memory.* It keeps the promise that the services rely on, and it
  is known where it is kinder than PostgreSQL.
* *Sync.* The kitchen shows only statuses the platform gave; failed events are
  not forgotten; when all is quiet the kitchen agrees with what the venue could read of
  the journal; cancellations that it can read arrive.

The full list of hazards, each at its line with the properties that watch it, is
in `PROJECT.json`.

## 2. The modules

```
OrderLifecycle ── OrderBook ────────────── (abstract promise of the platform)
      │               ▲  refined by                 ▲ used by
      └── OrderCommands                             │
             └── OrderCommandsRequirements      VenueSync
                    ├── EventFeed ── MemoryRepository
                    │                               └── VenueSyncRequirements
                    │                                      ├── VenueSyncProofs
                    │                                      └── MCVenueSync
                    └── OrderCommandsInvariant
                           ├── MCOrderCommands ── MCEventFeed (with EventFeed)
                           │         └── MCRepositories (with MemoryRepository)
                           └── OrderCommandsProofs
                                  └── OrderRecordsProofs
                                         └── RepositoryProofs (with MemoryRepository)

OrderPricing ── MenuPublication ── MenuRequirements ── MenuProofs
                                          └── MCMenuPublication

Pages ── OrderLists ── OrderListsProofs
  │          └── MCLists (with VenueCatalogue)
  └── VenueCatalogue (refines OrderLists, in a mirror) ── CatalogueProofs

OrderLifecycle, OrderBook ── PlatformServer ── PlatformServerProofs
                                   └── MCPlatformServer
```

**OrderLifecycle** has the guards of both services as operators
(`CanCancelOrder`, `CanVenueAdvanceOrder`, `CanChangeOrderStatus`) and, apart
from them, the arrows of the diagram in `docs/contract-decisions.md`
(`LegalMove`). That the guards only admit the arrows is what is checked, not
assumed.

**OrderBook** is the abstract platform: a history of statuses per order, an
answer per command, and one action, `Execute`, in which a command that has no
answer moves one order by one legal move and gets its answer.

**OrderCommands** is the platform with its handlers. The variables are the
tables (`orders`, `commands`, `journal`, `menuVersion`), the identity
`nextSeq`, a clock that advances with every reading, and `req`, the handlers.
An order's row keeps customer, venue, create key, venue order id and the history
of its statuses with their times; the payload and the detail tables are rewritten
as a whole by the code and are the history here. A handler's phases are its
statements:

| Phase | Statement | Action |
|---|---|---|
| `replay` | `replayCommand` | `ReplayCommand` |
| `prepare` | reads of venue and menu, items, prices, new identifiers, `now` | `RefuseOrder`, `PrepareOrder` |
| `find` | `findCommandTx` in `CreateOrderCommand` | `FindCommandTx` |
| `version` | `SELECT menu_version ... FOR SHARE` | `LockMenuVersion` |
| `insert` | `INSERT ... ON CONFLICT DO NOTHING`, event | `InsertOrder` |
| `load` | `FindOrderForUser` / `FindOrderForVenue` and the checks on what was read | `RefuseCommand`, `LoadAccepted`, `LoadOrder` |
| `compare` | `VenueOrderID` of an order that is accepted already | `CompareVenueOrderID` |
| `lock` | `SELECT ... FOR UPDATE`, `findCommandTx`, comparison of the status | `LockOrder` |
| `update` | `UPDATE orders`, event | `UpdateOrder` |
| `commit` | `COMMIT`, acknowledged or not | `Commit`, `CommitUnacknowledged` |

`Fail` may take the place of any statement; `SyncMenu` publishes a menu. Locks
are operators over the phases (`LocksOrder`, `SharesVenue`, `InsertsFor`,
`AssignsVenueOrderID`), so that the end of a transaction releases them. Other
requests see nothing of a transaction before its commit except that they wait.

**OrderCommandsRequirements** states what the tables and the answers owe to
clients, the refinement mapping to `OrderBook`, and what a handler waits for
(`WaitsFor`). **OrderCommandsInvariant**
has the inductive invariant, in three parts: what handlers rely on to change an order
(`GroundInv`), what the tables say of each other and handlers of the tables
(`RecordInv`), and what PostgreSQL's unique index adds (`IndexInv`). The parts are
apart because the repository in memory keeps the first two and not the third.

**EventFeed** adds the cursors of the venues to `OrderCommands` (`Poll`,
`Forget`). It composes with the handlers step by step, so that a page can be read
between the drawing of a number and its commit.

**VenueSync** is the venue against the platform. The platform is an instance of
`OrderBook`: this is what the refinement of `OrderCommands` is for, and it keeps
the composition small. Of the platform's transactions it keeps what a reader of the
journal can notice: a change takes its order's row and draws the number of its event
(`Begin`), and later shows, with its answer and its event, all at once (`Commit`), or
never does (`RollBack`). Transactions of two orders may commit in another order than
that of their numbers, and a page may be read in between, so the cursor skips events
here just as in `EventFeed`. The variable `journal` has the events as they were
committed, each with its number; a page is read by the numbers (`Page`). The variable
`passed` only observes: it holds the events that were committed at a place the venue
had read past. What a handler decides before its transaction is in `OrderCommands`;
here a command that is not legal at its first statement does nothing.

A change carries `updatedAt`, which is one more than that of the change before it:
`JournalTimesIncrease` is what justifies that for a clock that advances. A *slip* is
a change whose time is the same as, or before, that of the order's change before it,
as after a step of the wall clock or between two processes whose clocks differ. The
retry queue is sorted by these times and events of one time come in any order, since
their identifiers are random. The
worker goes through the phases of `SyncWithPlatform`, event by event, with the
comparison of times (`ProcessEvent`) and the save (`SaveSnapshot`) as two steps,
because an operator's save fits between them. Operators read and check
(`StartUpdate`), have their command arrive (`Arrive`) and confirmed (`Confirmed`) or not
(`NotConfirmed`), and save (`SaveConfirmed`).

**VenueSyncRequirements** states what the kitchen can rely on.

**OrderPricing** is the loop of `CreateOrder` over the items of a basket as a fold,
with every refusal in the order in which the code comes upon it, and the bounds
that are compared before anything is multiplied or added.

**MenuPublication** is the menu of one venue. Publishers are the statements of
`SyncPartnerMenu`, each a step: the current menu (`FindCurrent`), the snapshot
under `FOR UPDATE` (`SaveMenuSnapshot`, whose acknowledgement may be lost), the
menu again if another was faster (`FindCurrentAgain`), and the mapping in a
statement of its own (`ProductMappings`). Customers read the version (`FindVenue`),
the cache (`GetCached`, `GetFails`), the menu (`FindMenu`) and put it into the cache
(`PutCached`, which may fail), and order from what they were shown (`PriceOrder`,
`PlaceOrder`). Entries of the cache expire at any time. Items are products with
price and availability; categories, names, tags and descriptions are left out. The
version of a menu is the same in `venues` and `menus`, which change in one
transaction. What is shown of a menu (`Public`) keeps the available lines in the
places they have on the whole menu; their numbers mean nothing to a customer, who finds
a product by its identifier. `OrderCommands` has the same lock with the order's side in detail and
nothing of the menu but its version.

**MenuRequirements** states what customers and venues can rely on, and defines the
exact total that `OrderPricing` is compared with.

**OrderLists** is a client who pages through a list of orders: a customer's, a
venue's orders in one status, or the kitchen's. The three share the order of rows
(`Comes`), the comparison with the cursor (`Beyond`), the row that is fetched beyond
the limit (`HasMore`) and the check of a cursor's scope (`Belongs`). Orders appear at
any place of the order and change status at any time. The variable `stayed` only
observes: it holds the orders that never left the list since its first page.

**VenueCatalogue** is the public list of venues by city: the same scheme in ascending
order of name and identifier, with `FirstVenues` for the `LIMIT`, and a cursor that is
refused without a name (`Acceptable`). The page sizes and the absent value are
those of the other lists (`Pages`). Its instance `InMirror` of `OrderLists` maps names
and identifiers to their mirror images: `CatalogueIsAList` says that every step of the
catalogue is a step of a list of orders. What that means for a client is said in the
catalogue's own variables: `NoVenueIsMissed` and `NoVenueTwice`.

**MemoryRepository** puts two repositories behind the same handlers: the statements
and locks of `OrderCommands`, or the maps of `repository/memory`, where a whole call
is one step under a mutex (`CreateOrderCommand`, `ApplyOrderCommand`), nothing fails and
a sequence number shows as soon as it is drawn. The variable `store` is chosen in the
initial state. Reading calls and what the handlers do between calls are the actions of
`OrderCommands` and `EventFeed` themselves. Venues and customers are disjoint as
there, which is what makes the joined string of `commandKey` one key per command.

**PlatformServer** is the platform from outside. A process is `down`, has to `configure`
its key, to `listen`, is `serving`, `stopping` (in `Shutdown`) or `closing` (in
`store.Close`); it can fail in each of them and die at any time. A request is at one of
these places:

| Phase | Place in the code | Actions |
|---|---|---|
| `receive` | OpenAPI validator, which reads the body; generated wrapper | `Receive` |
| `authenticate` | `authenticatedVenue` | `Authenticate`, `Fails` |
| `serve` | decoding, reads, replay, an accept of an accepted order | `DecodeFails`, `ServeRead`, `Replay`, `AcceptAgain`, `Refuse`, `Begin`, `Fails` |
| `transaction` | on a connection of the pool | `Commit`, `Replay`, `Refuse`, `Fails` |
| `reply` | the response is written or lost | `Deliver` |

What a request can be is a set of records: its operation, its key and subject, and the
one thing that is wrong with it (`Flaws`), if any. `OrdersParts` to `DecisionParts` say
what each generated wrapper binds, and so where a flaw is noticed. The commands act on
an instance of `OrderBook`, in one step at the commit. A command has two other ways to
succeed: it is recorded under its key with the same body (`Replay`, `SameRequest`), or it
accepts an order that is accepted already, which is recorded for no key
(`AcceptAgain`). Which refusals a service decides on is left open (`RefusalCodes`),
because the other modules say when. The variable
`latest` and the field `known` only observe: the bootstrap row that was configured
last, and the venues that a request's key opened at any time since the request came.

The operators marked "Variant" change one definition the way a slip in the code
would: a guard dropped, a lock not taken, a step in the wrong place. They are no
part of any specification; `PROJECT.json` says which property notices which.

## 3. What is checked

| Run | Instance | What it shows |
|---|---|---|
| `order_race` | 3 handlers, 1 order, 4 commands received of 6: create, cancel, two accepts, reject, preparing; a new menu | legal histories, a journal that tells them in order with growing times, true successes, no order on a menu that is gone, the inductive invariant, and the refinement of `OrderBook` |
| `order_liveness` | 2 handlers, 2 orders, two customers, creates that share a key with equal and different bodies, accepts that share an identifier | one order per key, equal answers for retries, and every command is answered: waiting for locks and twins never goes in a circle |
| `feed` | 2 handlers, 2 orders, 2 venues, 2 customers, 4 commands, pages of 2; either repository | nobody is told of another's order, pages move forward, and a cursor can only pass an event of another order; the memory is a correct order book that skips nothing, and only PostgreSQL keeps a venue's identifiers apart |
| `menu` | 2 publishers, 2 customers, the seed and four snapshots, two of one version and one with a price that is refused; seven baskets around every bound | one menu per version, exact prices, orders that cost what was shown, views that move forward, mappings that translate the published menu |
| `order_lists` | 4 orders, 2 times, 2 statuses, or 3 venues, 2 names, 2 cities; pages of 1 and 2 | nothing that stays in a list is skipped, nothing comes twice, a cursor leads to more, pages fit, and the catalogue of venues is such a list |
| `server` | 2 processes, 2 starts of five configurations (two that serve, one that cannot after it has replaced the key, two that are refused), 2 requests at a time and 3 in all, of five kinds: a create, two accepts under different keys, a body that cannot be decoded, a read | a venue's caller is known, a success is true of the caller's own order, a stop ends |
| `venue_operators` | 2 orders, 2 operators, 4 changes, 1 late command | the kitchen shows only statuses the platform gave, a newest stamp is true, every event the worker takes up is news |
| `venue_worker` | 2 orders, 3 changes, 1 operator whose replies are lost, 1 late command, 2 restarts, 2 slips of the clock, pages of 2 | the cursor passes only events that one of the other order overtook; when all is quiet, the read model shows the newest time that the venue could read of each order; cancellations that it can read reach the kitchen |
| `retry_refused`, `feed_skips_event`, `cancellation_overwritten`, `seed_order_stuck` | the instances above or smaller | see Findings |

**Bounds.** The interesting cases need two handlers that meet on one order or
one key; the third lets a retry of either arrive in between. Four commands are a
create and three that race for what it made, which is every pair of changes with
a retry of one of them. A page of two events in journals of up to ten makes pages
end inside the history of an order. In the runs about the venue the clock advances, except in `venue_worker`, which has two
slips and three changes: a create and two changes of one order that share or swap their
times, or a slip on one order beside a change of the other. Two orders and three numbers
are also what it takes for an event to be passed: one order is created and cancelled,
and the other one's create draws its number after the cancellation's and commits before
it, with a poll in between. One late command is enough
for it to be overtaken by a whole cycle and by another operator. Two publishers can meet on one
version with different menus and on different versions, while two customers hold
copies of a third; money is bounded by 9 instead of `maxMoneyAmount`, with a fee of
1, so that baskets meet the bound, exceed it in one product, in the sum, and with
the fee. Four orders at two times make identifiers decide within a time and give
three pages or four; `MenuPublication` and `OrderLists` have no bound on how long
they run. `MaxRequests`,
`MaxMenuVersion`, `MaxRestarts`, `MaxLate`, `MaxSlips`, `MaxEvents`, `MaxStarts` and
`MaxCalls` are the only bounds on behaviours. `MaxEvents` bounds the numbers that are
drawn, those of transactions that roll back included: six in the runs with one order,
whose histories have no more than six changes, four in `venue_operators` and three in
`venue_worker`. Two starts are enough for one process to replace the key of another;
two requests, for one of each venue to be under way meanwhile, or for a command and
its repetition; three in all, for an order to be created, accepted and accepted again;
the runs of `OrderCommands` stop when the commands are used up, which is why they
do not check for deadlock, with `EventFeed` or without, and neither does `server`,
where both processes may be gone for good. The runs of the other modules do.

**Symmetry** is used over handlers in runs without liveness, over publishers and customers
of `MenuPublication`, and over orders and operators of `VenueSync`; no definition tells these apart.

**Fairness.** A handler (`Step`) has strong fairness: a handler that waits is
enabled again and again, and PostgreSQL serves those that wait in turn. Failures
and menu snapshots have none, since nothing makes them happen. In `VenueSync`, a
transaction of the platform ends, one way or the other. The worker has weak
fairness for its cycle, because its ticker never stops; publishing the menu and
pulling a page have strong fairness, because calls that are repeated for ever are
assumed not to fail for ever. Operators and customers owe nothing. In `PlatformServer`
handlers have weak fairness once their request is there, since their database calls
end, and so have the return of `Shutdown`, which has a deadline, and the end of the
process. `Receive` has none: the server sets `ReadHeaderTimeout` and no deadline for
the body, so a client may keep a request waiting for ever. `StopEnds` holds all the
same, because of the deadline of `Shutdown`; without it (the mutant) it does not.

## 4. What is proved

TLAPS checks these for every value of the constants.

### The order commands

For any number of handlers, orders, customers, venues and commands, and any
bounds. The assumptions are those of `OrderCommands`: users and
venues are disjoint (the code's prefixes `user:` and `venue:`), commands are well
formed (`CommandsType`: what the handlers validate before they start), and `None`
is none of the values it stands beside (`NoneIsAbsent`).

In `OrderCommandsProofs`:

* `TypeCorrect`: `Spec => []TypeOK`. The types are not inductive alone: that a commit
  writes a row needs its handler to be on the path of its command's kind, and an order
  once decided on to stay in the table. `PathsFit` says so and is proved along.
* `GroundHolds`: `Spec => []GroundInv`.
* `HistoriesAreLegal`: `Spec => []LegalHistories`.

In `OrderRecordsProofs`:

* `Inductive`: `Spec => []IInv`.
* `JournalIsTrue` (`JournalTellsHistory`), `TimesFollowNumbers`
  (`JournalTimesIncrease`): the journal is the history, in its order and in its times.
* `KeysNameOrders` (`CreateKeyNamesOrder`), `VenueIDsDiffer` (`VenueOrderIDsDiffer`):
  keys and a venue's identifiers name one order each.
* `TenantsAreApart` (`TenantIsolation`), `SuccessesAreTrue` (`SuccessIsTrue`),
  `RepliesAgree` (`RetriesAgree`): what clients are told.
* `OrdersUseCurrentMenu`: `Spec => OrderedFromCurrentMenu`.
* `RefinesOrderBook`: `Spec => ImplementsOrderBook`, the refinement of the abstract
  platform, on which `VenueSync` and `PlatformServer` are built.
* `WaitingEnds`: `Spec => []NobodyWaitsInACircle`.

**The argument for the histories (`GroundInv`).** A handler prepares the history it will write from the one it
read while holding no lock. The write is right only if the history is still the
same at the commit. Under the row lock the code compares *statuses*, not
histories, so the invariant has to say why this is enough:

1. `HistoriesAscend`: along a history the rank of the status grows, so a status
   never comes back.
2. `ChangesAreGrounded`: from its decision on, what a handler read is a prefix of
   the order's history, and the move was permitted from its last status. With (1),
   a prefix that ends in the status of the whole is the whole
   (`SameStatusSameHistory`): after the comparison under the lock, what was read
   *is* the history.
3. `OneHolder`: the row lock has one holder, so the history stays what it is
   until the holder's commit.
4. `NewOrdersAreNew`: the identifier of an order that is being created belongs to
   nobody else, so that a create never writes over a change.

At the commit the new history is the old one and one permitted move, and every
permitted move is an arrow of the diagram (`LegalAppend`).

**The argument for journal and answers (`RecordInv`).** A handler that commits writes
an order, an event and a recorded answer in one step (`Writes`). That the three go on
telling one story needs six things, each of which a guard or a lock of the code
provides (`MayRecord`) and the handler relies on between its statements (`Ready`):

1. `NotRecorded`: the command has no answer while its handler holds the order. It was
   looked for under the lock (`LockOrder`), and only the holder of the order can
   record it, since an answer is about one order (`RecordsAreTrue`).
2. `KeyIsFree`: no order has the create key that is being inserted, because the insert
   waits for its twin.
3. `DrewNumber`: the number of an event was drawn while the handler held the order or
   its key, so it is larger than those of the order's events. Numbers of other orders
   may still be committed below it, which is all that `feed_skips_event` needs.
4. `TookTime`: the clock was read after the change that was decided on, and under the
   lock that change is the last (`SameStatusSameHistory`); so times grow along a history
   although they are taken before the wait.
5. `OwnsOrder`, `SawOutcome`, `AnswerIsTrue`: what a client may see does not change
   owner, and an answer stays a past of its order, whose histories only grow.
6. `OnCurrentMenu`: the menu that was compared is held by `FOR SHARE` until the commit.

`WritersDiffer` keeps two handlers that are about to commit apart. Two successes of one
command show the order in the status that the command asked for; a status never comes
back, so that they are the same past of it. The refinement maps histories and recorded
answers; a commit is one `Execute` or, for a create of an order, the first move of its
history, and every other step stutters.

**The index (`IndexInv`).** `VenueOrderIDsDiffer` does not follow from locks: two
handlers hold two orders. An update with an identifier waits for a twin that is not yet
committed and fails on one that is (`AssignsNewID`).

**Waiting.** A handler waits for another one only before it locks, inserts or updates,
and the other one is further on its way then: past its lock where the first is about to
lock, at its commit where the first inserts or updates (`WaitingLooksAhead`). So one that
is furthest of any set waits for none of the set. No transaction locks a second
order; a create shares its venue's row before it inserts, and the only one that wants
that row for itself, a menu snapshot, is one step here.

### The repositories and the feed (`RepositoryProofs`)

For any number of handlers, orders, venues and any size of a page, and with either
repository. The assumptions are those of the order commands.

* `StoreInductive`: `StoreSpec => []StoreInv`.
* `FeedTypeCorrect` (`FeedTypeOK`), `OnlyOthersAreSkipped` (`SkippedForAnotherOrder`),
  `PagesAreNews` (`PagesMoveForward`): how far at-least-once delivery can fail.
* `MemoryIsComplete` (`MemorySkipsNothing`), `TenantsAreApartInBoth`
  (`TenantIsolation`), `IndexIsKept` (`IndexKeepsIDsApart`), and
  `MemoryImplementsBook` (`MemoryKeepsTheBook`): the memory keeps the promise, and
  where it is kinder.

The argument: a call of the memory is a whole transaction, so no handler rests inside
one (`CallsAreWhole`), and what a handler of PostgreSQL has to hold a lock for is true
at that moment (`WholeCallMayRecord`). `GroundInv` and `RecordInv` hold with both,
`IndexInv` only with PostgreSQL. A cursor is the number of the last event the venue was
given (`CursorIsDelivered`). An event that is committed below a cursor drew its number
before; if the event that moved the cursor were of the same order, `DrewNumber` would
have put it above.

### The published menu (`MenuProofs`)

For any number of publishers, customers, menus and baskets, any prices, quantities and
bound. Assumed: menus have versions that are numbers and lines with a product, a price
and an availability, items have a product and a quantity, the seed is valid, `None` is
no menu. Nothing is assumed of prices that are sent nor of quantities: the code checks
them.

* `TypeCorrect`: `Spec => []TypeOK`, with the range of the published prices.
* `OneMenuPerVersion`: `Spec => []VersionNamesOneMenu`.
* `VenueTranslatesMenu`: `Spec => []CurrentMenuIsTranslated`.
* `NoOlderMenuIsShown`: `Spec => ViewsMoveForward`.
* `PricesHold`: `Spec => []PricesAreExact`.
* `OrdersCostWhatWasShown`: `Spec => []PaidAsShown`.

The argument: no copy anywhere is newer than the published menu (`CopiesAreOld`),
a publisher never knows a version newer than it (`PublisherKnows`), and what a
customer is about to be shown is no older than what was shown (`CustomerKnows`).
A snapshot is only saved if its version is greater than the published one
(`MenuStep`), so that it differs from the version of every copy and of every answer
under way; every other step only hands on copies that exist (`PublisherStep`,
`CustomerStep`).

**Prices.** `PricesAreExact` compares the fold of `OrderPricing` with a sum over a set,
for baskets of any length. Both are unrolled first: there is a sequence of bills of
which each is one turn of the loop on the one before (`SubtotalRuns`), and a sequence
of sums of which each adds one cost (`TotalSums`, for which the terms of a sum over a
set are shown to commute in `AnyTermFirst`). Then each is followed item by item: a bill
that is not refused is a sum within the bound of items that can be ordered
(`BillsFit`), and where all can be ordered it is refused exactly from the first sum
that is above the bound (`BillsAreSums`), because costs are never negative and
`price <= MaxMoney \div quantity` says the same as `price * quantity <= MaxMoney`
(`BoundOfPrice`). Induction over the items is `Counting`, an induction over sets of
numbers instead of predicates, from the well-foundedness of the numbers.

`PaidAsShown` follows with `OneMenuPerVersion`: the version that the request names is
that of the published menu, so what was shown is what is public of it, and a basket
that is charged by the whole menu is charged the same by its public lines
(`PublicBill`).

### The lists of orders (`OrderListsProofs`)

For any finite set of orders, any times, statuses and page sizes. Assumed: orders
and times are ordered like numbers, page sizes are positive, `None` is none of the
values it stands beside.

* `PagesFit`: `Spec => []TypeOK`, with the size of pages.
* `ListsAreComplete`: `Spec => []NothingIsSkipped`.
* `OrdersComeOnce`: `Spec => NoOrderTwice`.
* `CursorsLeadOn`: `Spec => CursorLeadsOn`.

The invariant says that what was given is not after the cursor (`GivenIsBehind`) and
that of what stayed, everything that is not after the cursor was given
(`BehindIsGiven`). `PageOfRows` is the lemma about `LIMIT`: the rows with fewer than
n rows before them are an initial part of the rows and no more than n, shown by
counting the rows before each; `CursorOfTurn` puts the cursor between the page and
the other rows. A row's key never changes, so neither insertions nor changes of
status move a row across the cursor.

### The catalogue of venues (`CatalogueProofs`)

For any number of venues, names, cities and page sizes; the constants are restricted by
`CatalogueAssumption`, which TLC evaluates in `order_lists`.

* `CatalogueImplementsLists`: `CatalogueSpec => CatalogueIsAList`.
* `CatalogueInductive`: `CatalogueSpec => []CatalogueInv`, and from it
  `CatalogueIsComplete` (`NoVenueIsMissed`) and `VenuesComeOnce` (`NoVenueTwice`).

The argument goes from the key to the page: the mirror reverses the order of keys
(`OrderInMirror`), so it maps what a query finds (`FoundInMirror`), the first rows of it,
by counting those before each (`PageInMirror`), the last of them (`LastInMirror`), and
the cursor that is made from it (`TurnInMirror`). Adding a venue is inserting an order.
The prover cites lemmas about one step from an instance of a proof module, and no
temporal theorems: `Mirrored` is the proof module of the lists
under the mapping, its assumptions are proved of the mirrored constants
(`ConstantsInMirror`), and its invariant, said of the mapped variables, is kept by every
step of the catalogue because `StepKeepsIInv` of the lists says so.

### The venue (`VenueSyncProofs`)

For any number of orders and operators, any size of a page, any bounds on restarts,
late calls, slips and events. The assumptions are those of `VenueSync`.

* `VenueInductive`: `Spec => []VenueInv`, and from it `VenueTypeCorrect` (`TypeOK`),
  `KitchenIsTrue` (`KitchenStatusIsReal`), `NothingIsForgotten`
  (`CursorPassesNothing`) and `NoOrderIsMissing` (`EveryOrderIsThere`).
* Where `MaxSlips = 0`: `SteadyInductive`, `NewestIsTrue` (`NewestStampIsTrue`),
  `EventsAreNews` (`EveryEventIsNews`).
* Where `RepliesArrive = FALSE`: `WorkerAloneInductive`, `QuietMeansConverged`
  (`ConvergedWhenQuiet`).

The two hypotheses are the conditions under which the runs check these properties, and
they cannot be dropped: with a slip, the newest time may belong to an older status, and
where replies arrive an operator's save can undo a newer event, which is
the finding `cancellation_overwritten`.

None of them says that the venue reads the whole journal, because it does not
(`feed_skips_event`). They say what is left: the events behind the cursor are those
the worker has or had in its hands and those in `passed`, and every one of the latter
was overtaken by an event of another order, so that an order's own events are never
swapped. `EveryOrderIsThere` and `ConvergedWhenQuiet` are about the events that are not
in `passed` (`Readable`): an order of which the last event was passed stays at the one
before, until its next event or until the venue starts again.

`VenueInv` says of the platform that the journal has one event for each change
(`JournalFits`) and how numbers, events and open transactions belong together: a
transaction that holds an order has a number above those of the order's events
(`NumbersFit`). Of the worker it says where it stands in its cycle, that what it has
handled, what waits and what it is about to handle are exactly the events up to the
number it has reached that were not passed, and that this number, unless it is 0, is
that of an event it was given (`WorkerFits`). An event that commits below it therefore
has a lower number than one that was given, and by `NumbersFit` that one is of another
order. Of the kitchen it says
that every status it has or is about to save is one that the order took on the platform
(`KitchenInv`); since histories and journal only grow (`PlatformLasts`), such a status
stays real. An event is only marked as done when its order is saved or was there already,
and only a restart removes orders, together with the marks (`DoneIsThere`).
`SteadyInv` adds that times are versions and that nothing in the kitchen is
ahead of what the worker has handled: an operator's save carries the time that was read
before the change (`RequestsAreOutdated`), never the time of the change itself, so that
it cannot pass for the newest. Events of one order are done in the order of their
versions (`DoneInOrder`), which makes each one that is taken up news. `WorkerAlone` says
that every row is the snapshot of an event and no older than any event marked as done.

### The server (`PlatformServerProofs`)

For any number of processes, requests, configurations and keys. Assumed: keys that
were issued by hand are not the bootstrap row and belong to venues (`IssuedType`), and
`None` is no venue and none of the other values it stands beside (`NoneIsAbsent`).

* `OnlyKnownCallers`: `Spec => []CallersAreKnown`.
* `ServerInductive`: `Spec => []SInv`, and from it `ServerTypeCorrect` (`TypeOK`) and
  `RepliesAreHonest` (`AnswersAreHonest`).
* `OnlyOwnersChangeOrders`: `Spec => OrdersChangeByTheirOwn`.

The argument for the callers: the table always is what was issued and what was configured
last (`TableAsConfigured`), and until a request is authenticated, every venue that its key
opens in the table is noted down (`OpeningsAreKnown`), because the step that changes the
table notes it for the requests that wait. Every other step is harmless: it leaves the
table alone and ends requests or moves them on (`HarmlessKeeps`).

The argument for the answers: every recorded answer tells of an order of the subject it
was recorded for, the one that the command names, and of a status that this order went
through (`AnswersFit`); a replay with the same body asks for that status, and for the
venue that a new order was placed at. A commit brings its order into the status asked
for (`CommitActs`), and an accept that finds its order accepted has nothing left to
bring about. Orders keep their owners and their pasts (`BookLasts`), so that a success
stays true until it is delivered (`StillFulfilled`). Nothing is claimed of other replies:
a commit may be answered with 500 if its acknowledgement is lost.

Only a commit writes the book (`OnlyCommitsWrite`), on an order that the request sees
afterwards. With `CallersAreKnown` this is `OrdersChangeByTheirOwn`, which ties the
change of an order to a key that was the venue's own.

### What is only model-checked

Liveness: `EveryCommandIsAnswered`, `StopEnds` and `CancellationArrives` rest on
fairness, which stays with TLC; the prover does not reach it. Of the first, `WaitingEnds`
proves the part that needs no fairness: waiting is never circular. That a handler that
waits for nobody has a step is a matter of `ENABLED` and stays with `order_liveness`. The four violated
properties of section 5 are no theorems, of course, and neither is
`ConvergedWhenQuiet` where replies arrive. Every other property of a passing run is
stated by a theorem, under the hypotheses named above. The other way round,
`NoVenueIsMissed`, `NoVenueTwice`, `NobodyWaitsInACircle`, `EveryOrderIsThere` and
`OrdersChangeByTheirOwn` are proved and in no run; TLC finds each of
them to hold when it is added to the run of its module.

## 5. Findings

Four statements of the repository's documents do not hold of the code; each has a
run that shows how.

* `feed_skips_event` — a venue's cursor can pass an event for good: the number of
  an event is drawn before its commit (`appendOrderEventTx`), another transaction
  of the venue with a larger number commits first, a poll reads it, and the event
  commits afterwards. `docs/contract-decisions.md` promises at-least-once delivery.
  `SkippedForAnotherOrder` shows how far it goes: two events of one order are
  never swapped, because they draw their numbers under its row lock. In `VenueSync` the
  same happens to the kitchen, which then shows the order as it was before, or not at
  all; what its properties say is said of the other events.
* `cancellation_overwritten` — an operator's request reads the order, has its
  change confirmed by the platform, and saves its copy after the worker applied a
  cancellation that came later. The event is marked as processed, so nothing
  corrects the kitchen before a restart.
* `retry_refused` — a retry that looks for its answer before the first delivery
  commits and reads the order afterwards gets `invalid_order_transition`, although
  the answer is recorded.
* `seed_order_stuck` — an order placed on the seeded menu before the venue's first
  sync names products that no mapping will ever contain, and is retried for ever.

Remarks without a run of their own:

* An accept with a new key on an order that is accepted already under the same
  identifier succeeds without an answer recorded for that key (`service.go:337`,
  `LoadAccepted` and `CompareVenueOrderID`, `AcceptAgain` of the server); the same request is refused once the
  kitchen moved on.
* A change whose `updatedAt` is not after the one before it never reaches the kitchen
  (the venue's `service.go:248`). `ConvergedWhenQuiet` says what is left: the newest time
  that was read.
* A start that fails after `ConfigureVenueAPIKey`, on an unusable `REDIS_URL` or a
  taken address, has replaced the key already (`cmd/server/main.go:38`). The process
  that still serves refuses its venue from then on, with 401. The restart of an older
  process puts its older key back in the same way.
* The OpenAPI text gives the scope of an `Idempotency-Key` as "`X-User-Id` or venue API
  key" (`openapi.gen.go:662`); in the code it is the venue, so that a retry with a
  rotated key finds its answer (`CommandId`).
* The repository in memory takes one `venueOrderId` for two orders of a venue
  (`ApplyOrderCommand`, `memory/repository.go:217`), which PostgreSQL's unique index
  refuses. A test over it cannot meet that refusal, nor an event that is skipped.
* A venue without a name would end a page with a cursor that is refused when it comes
  back (`service.go:566`); nothing in the schema forbids the name to be empty. Names are
  not empty in `VenueCatalogue`. A city with `%` or `_` is a pattern in PostgreSQL
  (`ILIKE`) and not in memory; cities are only compared here.

## 6. What is not modelled

Left out for good: the contents of requests and replies, the text of the OpenAPI
documents (the flaw `schema` stands for all of it), error wording, and the generated
types. Of the venue, the HTTP layer only has state in `UpdateLocalOrderStatus`, which is
the operators' requests of `VenueSync`; its reads, its wrappers and its configuration
keep none, and the end of its process, whether stopped, failed or killed, is the
restart that forgets everything. Of the repository in memory, the product mappings are
left out. PostgreSQL is modelled by how the code uses it: row locks, unique indexes,
read committed statements, identities that are drawn outside the transaction's fate.
The deadlock detector is not needed: waiting never becomes circular for the locks the
handlers take (`WaitingEnds`). The clock of `OrderCommands` advances with
every reading; what a slip does to the venue is in `VenueSync`. A restart of the venue
empties the kitchen's list, which `OrderLists` leaves out.
