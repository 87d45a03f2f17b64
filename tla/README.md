# Verification of the FIFO warehouse-management system

The system is a warehouse-management server (`src/wms/app`, FastAPI on
PostgreSQL), a React front end, an Android application for handheld terminals
(`src/TSD`) and the firmware of a sensor node.  Around it stand an ERP
(Smartup / 1C) and the national marking registry (Asl Belgisi).  This directory
holds TLA+ modules of the parts of it where requests, workers, crashes and lost
answers meet, the TLC configurations that check them, and proofs of the
properties that hold for every size of the warehouse.

How the server runs decides how it is modelled.  `main.py` (19-62) starts the
outbox worker, the key-refresh worker and the reservation-expiry worker in
every server process.  Each HTTP request has one database session and one
transaction, committed by the endpoint and rolled back by `get_db` on any
exception (`db/base.py:46-54`).  PostgreSQL runs at READ COMMITTED; sessions keep
loaded objects (`expire_on_commit=False`) and an UPDATE writes the columns whose
value changed.  So nearly every hazard here is a *read, decide, commit*
sequence of two requests that overlap, and the modules give each request a
reading step and a committing step.

## Inventory

| Component (source) | State | Operations | What is hard | Correct when | Status |
|---|---|---|---|---|---|
| Putaway reservations (`services/putaway.py`, `endpoints/putaway.py`, `worker/reservation_expiry.py`) | `putaway_reservations`, location status, stock, codes | reserve, confirm by scan, redirect, cancel, expire | checks without locks, three writers of one reservation, expiry beside confirmation | room is respected, a hold ends, goods stand where the records say | partly |
| Slot suggestion (`services/slotting.py`, `search_locations`) | none | suggest, search | three queries of the free room | what is offered can be reserved | partly |
| Ledger and stock cache (`services/ledger.py`, `models/inventory.py`) | `ledger_entries`, `stock_items` | `record`, `_adjust_stock` | cache beside a log, row lock on rows that may not exist, clamp at 0, unique and CHECK constraints, NULL batches | the cache is the sum of the log and what stands on the shelf | partly |
| Receipt and task-confirmed putaway (`services/receipt.py`, `endpoints/receipt.py`) | batches, codes, putaway tasks | receive, scan, confirm | a batch created twice, two confirmations of one task | goods are placed, and once | partly |
| Cycle count, inventory count (`services/cycle_count.py`, `operations.py`) | count tasks, stock | generate, count, post | goods move between counting and posting | after a count the cache is true | partly |
| Movement, replenishment (`operations.py`, `services/replenishment.py`) | stock, tasks | move, generate, execute, write off, return | moves repeated or overdrawn | goods are neither made nor lost | partly |
| Returns (`services/rma.py`) | stock, batch status | decide per line | zones not set up | stock comes back where it stands | partly |
| Quarantine (`endpoints/quarantine.py`) | batch status | block, release | a batch blocked between plan and booking, two batches of a date | a blocked batch is not planned | modelled |
| Picking and shipment (`services/picking.py`, `endpoints/shipment.py`) | bookings, documents, route | list orders, plan, book, open a pallet, confirm, release bookings | plan older than the booking, several lines, loaded objects not refreshed, sibling records | bookings are the open orders', no order is overfilled, FEFO, the list promises what a plan finds | partly |
| Pick scan (`shipment.py` 734-826) | JSON list of expected codes | scan | lost update of the list | a task is done when all is scanned | modelled |
| Waves and tasks (`services/wave.py`, `endpoints/tasks.py`) | task status | plan a wave, update | any status after any other | finished work stays done | partly |
| Marking tree (`services/marking_tree.py`, `resolve_scanned_code`) | trees of codes, their locations | build, stamp, resolve | a registry that answers partly, requests that overlap with it | a code is where its goods are; a pallet is what is packed in it | modelled |
| Outbox and delivery worker (`services/outbox.py`, `worker/outbox_worker.py`, `endpoints/connectors.py`) | `outbox_messages` | enqueue, approve, reject, deliver, retry, poll | several workers, crash between call and commit, lost answer, approval racing delivery | nothing unapproved leaves, sent means answered, retries end | modelled |
| Circuit breaker (`core/circuit.py`) | per base URL: failures, opened at, half open | `before_call`, `on_success`, `on_failure` | coroutines interleave at the call | opens on a streak, recovers | modelled |
| Connectors (`connectors/smartup.py`, `aslbelgisi.py`) | none | a request with its retries | what counts as a failure | the breaker sees what it is meant to see | partly |
| Connector settings, catalogue sync, key refresh (`endpoints/connectors.py`, `services/sync.py`, `erp_policy.py`, `worker/sync_worker.py`, `worker/key_refresh.py`) | `connector_configs`: JSON settings and credentials, watermark | save, disable, test, sync, pull, tick, refresh | whole columns written back from an old copy, failures between two commits, a crash after the registry changed the key | settings survive, no change is missed, the key works | partly |
| Sessions and accounts (`endpoints/auth.py`, `admin_users.py`) | users, refresh tokens | sign up, approve, log in, rotate, log out | one token used twice | a login has one live token | partly |
| Event bus (`core/events.py`, `endpoints/realtime.py`, `frontend/src/lib/realtime.ts`) | queues of subscribers | publish, subscribe, refetch | full queue, published before the commit | a screen shows what is stored | modelled |
| Terminal's offline queue (`OfflineQueue.kt`, `SyncManager.kt`, `WmsOps.kt`) | a queue file | submit or queue, replay, drop | two threads, file rename, crash, lost answer | an operation reported as queued is not forgotten | modelled |
| Tenants, warehouse map, products, audit, analytics, labels, sensors, front end, migrations | rows and screens | CRUD, read-only queries, I/O | little | | not modelled |

Components call each other inside a transaction: putaway, picking, movements,
counts and returns all go through `ledger.record`, which also publishes the
event the screens follow; shipments and corrections write outbox rows in the
same transaction as the stock; the outbox worker calls connectors through the
circuit breaker; the terminal posts to the endpoints of putaway and picking; a
confirmed putaway asks the registry for the tree of its code.

## Plan

Written, in this order, the behaviour that carries most goods and money first:

1. `Putaway`; `Slotting` on its state; both with `PutawayProofs`.
2. `Picking`; `OrderPlans` on its state; both with `PickingProofs`.
3. `Outbox` with `OutboxProofs`.
4. `CircuitBreaker`; `Connector`, which implements it; both with `CircuitBreakerProofs`.
5. `OfflineQueue` with `OfflineQueueProofs`.
6. `Stockroom`, `Receiving`, `Counting`, `Replenishing`, composed by `Floor`,
   with `FloorProofs`: every other writer of the stock on the same tables.
7. `Settings`, `Access`, `MarkingTree` with `Resolution`, `PickScan`, `Screens`,
   composed by `Office`, with `OfficeProofs`: what does not touch the stock.
8. `Sums`, the sum over a table's rows, with `SumTheorems`: the facts about
   finite sets and sums that the other proofs rest on.

Worth adding next: the codes that a shipment attaches to Smartup's lines; the
messages of `Outbox` enqueued by the requests of `Floor` and `Picking`.

## Modules and the code

```
Slotting ──> Putaway                      MCPutaway     PutawayProofs
OrderPlans ──> Picking ──> Sums           MCPicking     PickingProofs
Outbox                                    MCOutbox      OutboxProofs
Connector ──> CircuitBreaker              MCCircuitBreaker, CircuitBreakerProofs
OfflineQueue                              MCOfflineQueue, OfflineQueueProofs
Floor ──> Receiving, Counting, Replenishing ──> Stockroom ──> Requests
                                          MCFloor       FloorProofs
Office ──> Settings, Access, Resolution (──> MarkingTree), PickScan, Screens
             ──> Requests                 MCOffice      OfficeProofs
SumTheorems ──> Sums                      used by Putaway-, Picking-, Floor- and OfficeProofs
```

A definition that models code has the name of the function it models where it
can.  Beside some of them stands a second definition of the same shape, before
it, that the specification does not use (`NewQtyStrict` before `NewQty`,
`Given` before `Usable`, ...): the same guard or assignment with a mistake
in it.  They exist to be swapped in: with the mistake, TLC has to find the
property that `PROJECT.json` names for it violated.

### Putaway

A request is a record in `req[s]` with the values its handler has read.
`ReserveRead` makes the checks of `reserve_slot` (status, capacity, mixing, code
not reserved) on committed tables; `ReserveCommit` writes the row and the
expirations of the handler's own sweep.  `ConfirmRead` is `confirm_putaway` up
to the redirect check, `ConfirmPlace` the `SELECT ... FOR UPDATE` of
`_adjust_stock` with the pallet count made under its lock, `ConfirmCommit` the
commit: stock, ledger entry, code location, location status and reservation.  A
stock row that does not exist cannot be locked; two confirmations then both
insert it.  The unique constraint rolls one back if the row has a batch
(`ConfirmConflict`).  A reservation without an expiry date confirms goods
without one (`Unbatched`), NULLs are never equal, and both rows stand: the boxes of
the second are in `extra`, `OnHand` is the sum that `_remaining_boxes` takes, and
`Readable` the `scalar_one_or_none` that from then on raises for every
confirmation of that row.

The room of a cell depends on the product asked for: `CapacityBoxes` is
`max_pallets * boxes_per_pallet` of that product, `RemainingBoxes` takes off boxes
of every product alike, and `SameOnly` compares product and batch, or products
alone when the reservation has no batch.

`SweepRead`/`SweepCommit` are `expire_all_stale_reservations`, run by workers
and by GET requests; `TtlElapses` is the clock; `UpdateLocation` a manager's
PATCH; `Rollback` any exception or death of the process.

Abstracted: one warehouse and tenant, locations active, product and batch as one
value (`Products`, with `ArticleOf` for the product and `Unbatched` for the pairs
without a batch), a tree of codes as its root code, the reads of one handler as one
step, quantities in boxes.  `bypassed` records where an operator's `force`, a
redirect, or an unknown product skipped the capacity check, `placed` counts
PUTAWAY entries; no action reads either.

### Slotting

No state of its own: operators on Putaway's tables.  `Candidates` are the hard
constraints of `suggest_locations`, `Searched` and `CanPlace` the manual search,
`Suggestions` what `scan_and_suggest` answers.  The score is abstracted to "any
`TopN` of the candidates may come first", the limit of the search to "any
`Limit` locations", since SQL promises no order.  `Reservable` is `reserve_slot`'s
own check, so that `SuggestedIsReservable` compares three ways of counting the
same room.

### Picking

One product.  `PlanOrder` is `create_pick_task` with `build_pick_plan` for
every line, all on the same stock (`Take` computes the rows a line takes in FEFO
order, open pallets first, without sorting); `BookOrder` is `execute_pick_plan`
with `open_partial_pallet`, line after line, and the commit.  The rows are
locked by then, but the session still holds the objects of the plan and does
not refresh them: `Loaded` is what the code computes with, and `Merge` what an
UPDATE of the changed columns makes of a row that was written in between.
`ShipOrder`, `ShipRead`, `ShipWrite`, `ShipCommit` are
`confirm_shipment_endpoint`, which goes through the route with a batch of NULL
and deducts twice (`Deduct`, then `Adjust` inside `ledger.record`).  The route has
one item for each row a line was given boxes of (`Items`), and they are deducted
one by one in its order (`Following`): `Stop` is the order in which
`optimise_route` visits a set of locations, and at a location come the lines in the
order of the document.  Each item is flushed twice before the next is read, so that
a CHECK constraint can refuse a row in the middle (`Valid`, `Refused`): then only
`Rollback` is left.

`CreateMovement` and `ExecuteMove` lock their rows and are one step each.
`ReleaseRead` and `ReleaseCommit` are `release_bookings` for all products, the only
way the panel asks for it (`Stock.tsx`).

Abstracted: all rows exist (quantity 0), one product, marking codes and
documents left out.  An allotment that the re-check cut down to no boxes is no
item: it writes nothing, though in the code its location still counts among those
that the route visits.  The items of one line on two rows of a location come in
any order.

### OrderPlans

Operators on Picking's tables for what only reads them: `Resolved` is
`_resolve_product`, `Siblings` and `Shown` the order list with its sibling
records of one trade unit, `Blocked` the note on blocked batches, `TaskPlan` the
plan a pick task makes and `WavePlan` that of `build_wave_plan`, which looks at
one record only.  The order of a wave's stops is left out.

### Outbox

`GetDue` loads the oldest due messages that are not locked (SKIP LOCKED) with
their attempts; `Send` is one remote call with its outcome and its answer:
accepted, accepted for a document still to be polled, refused by Smartup with
`success: false` in an answer of status 200, or an error.  `Returned` is what the worker
makes of it: the client's boolean is dropped, so that a refusal is a success.
`Record` is the commit of `mark_sent` or `mark_failed`, which also drops the locks of
the rest of the batch.  `PollDoc` is `_poll_async_docs`.  `Decide` and the two
commits are the approval panel; `APPROVAL_HOLD` is the retry value "hold".
`Crash` kills a worker at any point and it starts anew.  `received`, `refused`,
`approved` and `exposed` are histories.  Time is only whether a retry is due.
The limit of 50 documents a poll looks at is left out.

### CircuitBreaker

`Begin` is `before_call`, `OnSuccess` and `OnFailure` the handlers,
`Cancelled` a coroutine that dies at its await (neither handler runs).  Every
number of coroutines can be inside a call.  Failures and elapsed time are
counted no further than their thresholds, which is as far as the code compares
them.  `streak` is the history of failed calls since the last answered one.

### Connector

`CircuitBreaker` knows calls that succeed or fail.  `Connector` is what happens
inside one: up to `MaxTries` attempts, of which `Retried` says which outcomes are
tried again, and `Transient` which count as a failure; the two clients differ
in what they make of a 429.  `BreakerKeepsPromise` is the refinement: with "the
remote system works" for `up`, the connector implements `CircuitBreaker`.

### OfflineQueue

An edit of the file is `ReadArray`, `WriteArray` (to the temporary file) and
`Rename`; the lock around them belongs to an object that each thread makes for
itself, so edits of two threads interleave, and a `renameTo` that fails is not
noticed.  `SubmitDirect`/`SubmitQueued` are `WmsOps.submit`, `Replay` the body of
`SyncManager.flush`, with the attempts it read when it listed the queue.
`Crash` ends all threads; files stay.  The content of a file is written in one
step (a torn temporary file is not modelled).

### Requests, Stockroom and Floor

`Requests` is what every server module of these two families shares: sessions,
each with at most one open transaction, and a bound on how many come in.

`Stockroom` holds the tables: stock rows per location and batch (`copies` counts
them, since rows with a NULL batch can be there twice), the ledger's sums,
batches, tasks, codes.  `Post` is one `ledger.record`: it locks the rows that
exist, and if one is missing the request goes on to `Insert`, where the unique
constraint or a second row may meet it.  `Write` is `_adjust_stock` with its clamp,
`Settle` what goes with the entry (a task closed, a row held back, a code
stamped).  Movements, write-offs, returns and RMAs, blocked batches and a
manager's `UpdateTask` are here.  `Receiving` adds receipts (`ReceiptRead` looks the
batch up, `ReceiptCommit` creates what was not there), the terminal's scan and the
task-confirmed putaway; `Counting` generates count tasks, and takes two ways of
posting a count: `RecordCount` reads the row under its lock, `InventoryRead` before
it; `Replenishing` computes suggestions, makes tasks of them and executes moves.
`Floor` is the composition: all of them on the same rows.

Histories: `shelf` is what really stands at a row; `apart` and `adrift` are the rows
for which a named event (an overdraw, a return scrapped on arrival, a count
overtaken by another posting) made cache and shelf, or cache and ledger, differ;
`excused` are tasks and batches two requests raced for or a manager touched.
None of them is read by a guard or written to a table; the only thing taken
from `shelf` is the number an operator counts.

Abstracted: one product and one expiry date, quantities in boxes and positive (the
clients send no others, though the schemas would let them through), documents,
priorities and outbox messages; bookings are 0 here (they are Picking's); the
codes of Putaway's reservations.

### Settings, Access, MarkingTree, Resolution, PickScan, Screens and Office

`Settings`: every request that rewrites a `connector_configs` row loads it
(`copy`), perhaps waits for the remote system, and saves whole JSON columns
(`Assigned` names the columns an UPDATE writes).  A pull runs its flows one after
the other with a commit each; every flow, also one that stores only a snapshot,
dates its run in the settings and so writes that column back from its copy
(`SaveRun`).  A flow that fails with a transaction open expires the row, and then no
other flow runs.  `main.py` leaves the ticking worker out on purpose (43-45);
`TickRead` is its tick, should it be started again, and a pull on request runs the
same flows.  A watermark has the resolution of a day.
`RefreshCall` is the moment the registry replaces the key, `RefreshSave` the
commit.

`Access`: `LoginRead` and its two ends work on a copy of the user's row;
`RefreshTokenRead` and `Rotate` are the two halves of `/auth/refresh`.  A token's
`login` is the login it goes back to.  `Logout` is one step: a rotation between its
read and its commit is the race that `OneLiveToken` excepts anyway.

`MarkingTree`: `Receive` stores a code, `Place` stamps the tree stored so far,
`Climb` and `Grow` are `build_code_tree` with any of the registry's possible
`Answers`.  `FetchTree` is an operator's fetch: one tree after the other for the
codes that were at the location when it began.  `lies` is where the goods really
are, and `mixedUp` the pallets for which something happened that the code does not
handle: a code received or a tree fetched while another request has the pallet
in hand (`Growing`, which counts the trees it is still to fetch), a box put away
without its pallet, a tree that is partly known and stays so.  `Resolution` reads
the table as `resolve_scanned_code` does.

`PickScan`: `ScanRead` and `ScanCommit` around the registry's answer; the JSON
list is written back as the copy had it.  `release_bookings` reads the documents
(`ReleaseDocuments`), writes them and reads their open tasks (`ReleaseTasks`), and
writes those with its next statement (`ReleaseCommit`): a task that a scan
completed in between is cancelled, and is in the history `reread`.  A shipment's
confirmation, whose steps are Picking's, is one step here; it waits for a release
that has written its document (`Cancelled`).  Where the id of a task comes from the client, as in `PATCH
/tasks/{id}`, cycle counts and replenishments, the modules take one of the kind that the
terminal and the panel send; the handlers do not check it.

`Screens`: `Post` publishes, `PostCommit` commits afterwards; `Hear` and `Fetching`
are the browser.

`Office` puts them side by side.  They share no table, so no step of one
enables, disables or changes anything of another: a behaviour serves the
requests of one desk (`desk`), which gives the same reachable states per module
as interleaving them and keeps the product of five state spaces out of TLC.

## Runs

| Run | What it shows | Bounds |
|---|---|---|
| `PutawayOverlap` | However requests overlap: the rows of the cache add up to the ledger (`LedgerMatchesStock`), every box comes from a confirmation (`StockComesFromConfirmations`), goods stand where reservation and code say (`ConfirmedGoodsAreInPlace`, `CodeIsWhereItsStockIs`), closed reservations stay closed (`ClosedStaysClosed`) | 2 sessions, 2 reservations, 2 locations, two codes of a product with a batch and two of the same product without: two is what a race needs; both confirmations of one reservation, of one row that exists, of one that does not, and two rows without a batch are reached.  The view leaves out `bypassed`, which no action and no property of this run reads |
| `PutawaySerial` | Requests one at a time beside the worker, managers that block cells and overrides: no overbooking, a full cell is marked, every hold ends, what is suggested or found can be reserved (`SuggestedIsReservable`) | 1 session, 1 worker, 3 codes (one of them unknown, one sent with quantity 0), two products of 2 and 1 boxes a pallet, the second without a batch, cells of 1 and 2 pallets, a zone rule against one product, a code too heavy for one cell, a search of 1 row |
| `PutawayRace` | *violated:* two overlapping reservations overbook a cell | 2 sessions, 2 reservations, 2 locations, 2 codes of one product |
| `PickingSerial` | Bookings are those of the open orders (`BookingsBacked`); the only picked order does leave, or is cancelled, or is short for its own double deduction (`LoneOrderShips`) | 1 session, an order of two lines (1 and 2 boxes) and one of one line (2 boxes), a cell of 1 box and an open-pallet bench with 3 loose ones, so that the lines share a row or not, and the shared row is too short or not; movements of 1 or 2 boxes up to 5 in a cell (`MaxBoxes`), releases |
| `PickingOverlap` | Two pick tasks with replenishments, quarantine and releases: list, plan and wave agree (`OrdersFindTheirStock`), no order overfilled, boxes conserved, the ledger counts every promise, FEFO | 2 sessions, 2 orders, cells of 2 boxes, two batches: lines fit a cell, span both, and exceed what is left; two records of one trade unit, lines in boxes and in pieces of 12; no bench, no shipping |
| `PickingTwiceDeducted` | *violated:* one order, picked and confirmed alone, loses its boxes twice | 1 session, 1 order |
| `Outbox` | Nothing unapproved is sent, sent means accepted, or refused in a 200 (`SentMeansAnswered`), three causes of duplicates and no fourth; due messages are settled, documents finalised | 2 workers, 1 operator, 2 messages (one needs approval, one is asynchronous), 2 attempts, crashes and lost answers |
| `OutboxDoubleSend` | *violated:* without any fault, two workers send one message twice | 2 workers, 2 messages: a batch of two is what releases a lock early |
| `CircuitBreaker` | Opens on a streak and only then, recovers; a connector with its retries implements it (`BreakerKeepsPromise`) | 3 coroutines, threshold 3, reset of 2 ticks, 3 attempts, both clients |
| `OfflineQueue` | Only a race on the file forgets an operation; duplicates have three causes | 2 threads, 2 operations, 2 attempts, crashes and lost answers |
| `Floor` | Cache, ledger and shelf agree but for named events (`CacheIsLedger`, `StockIsOnShelf`); goods are placed, and once (`PlacedOnce`, `ReceivedIsPlaced`); a batch is found again (`OneAvailableBatch`) | 2 sessions and 3 requests in all: two that race and one that comes before or after; a pick face, a reserve with 3 boxes, 2 batch rows and none, 2 tasks, codes of 1 and 2 boxes, quantity 2 (fits once, overdraws the second time) |
| `Office` | Settings and watermark survive (`SettingsSurvive`, `NoMissedChanges`), the key works (`KeyIsValid`), one token per login (`OneLiveToken`), codes lie where they are stamped (`CodesAreWhereTheyLie`) and count as packed (`CountedAsPacked`), a task is done when scanned (`DoneMeansScanned`), screens follow (`ScreensFollow`) | 2 sessions, 4 requests, 2 days, 2 keys, 3 tokens, a pallet of 2 boxes and another pallet (for a fetch of two trees) with a registry that answers for all, all but the first pallet, or nothing (climbed 6 levels instead of 15, more than the tree has), a pick of 2 codes, with scans, releases and managers around it, 2 viewers with queues of 1 |

Deadlock is not checked where the system may stop: all reservations used,
all orders shipped, all messages settled, all operations submitted, the bound
on requests reached.  Symmetry is used only in runs without liveness.

The serial runs are not a weaker question about the same code: they say what the
handlers guarantee to a warehouse with one operator, and the violation runs and
the hazards say what is lost when two operators work.  Where a property has an
exception (`excused`, `adrift`, `overtaken`, ...), the exception is an event that
the code does not handle; the property says that there is no other.

### Fairness

* `Putaway`: time passes (`TtlElapses`), the worker keeps sweeping and does not
  fail for ever (`while True` with a catch-all in `reservation_expiry.py`).
  Nothing is assumed of operators.
* `Picking`: requests end; an operator confirms a picked order again after a
  failure; from some time on a request fails only if a constraint refuses it.
* `Outbox`: the worker loop restarts for ever and a crash does not hit every
  iteration (strong fairness of its steps); the backoff ends.
* `CircuitBreaker`, `Connector`: the clock runs, attempts end (each has a timeout),
  and some caller keeps calling.  Without a caller an open breaker stays open: it
  has no timer of its own.
* `Floor`, `Office`: none; nothing there promises an end.

## Proofs

The proofs hold for every number of sessions, workers, threads, cells, batches,
codes, messages, items and attempts.  They rest on the assumptions that the
modules name, and those in use say little more than that constants differ and
bounds are positive: `PutawayAssumption`, `OutboxAssumption`, `CircuitAssumption`,
`StockroomAssumption`, `ReceivingAssumption`, `ReplenishingAssumption`,
`AccessAssumption`, `SettingsAssumption`, `OfflineQueueAssumption`,
`PickingAssumption`, `MarkingAssumption`, `ResolutionAssumption`.  Two say more:
`StockroomAssumption` that the dated goods on the shelf at first are all of one
batch, and `PackingAssumption` that pallets, boxes and units have fewer levels than
`build_code_tree` goes down (6) and no more than `_find_root` goes up (15).  Tables that are summed are finite.
A theorem with a further hypothesis states it in its ASSUME, and the reason is
given below: without it the code does something else.

**SumTheorems.**  `Total(f, S)` is a sum of f over a finite set, written with the
fold of the community modules.  The library's induction theorems take a predicate
as a parameter, which the provers cannot instantiate; `GrowingSubsets` and
`GrowingNumbers` say the same with the *set* of those that have the property, and
are proved from the well-foundedness of `<`.  From them come what a sum is of
one element more or less (`TotalWith`, `TotalWithout`), of a part (`TotalPart`), of
functions that agree (`TotalSame`) or differ at one point (`TotalChange`), and that a set of numbers has a
least one (`Smallest`), which is what makes "the first free task" and "the
first row in FEFO order" exist.  `Iterates` says that a function can be applied
again and again; a recursive function of a module is one, and has its equations,
only once such a sequence is known to exist.

**PutawayProofs.**  `TypeCorrect` needs more than types: `Existing`, that an open
transaction works on a reservation that has a row, without which a commit could
bring up a row out of nothing.  `ClosedForGood` follows from what every step does
to a reservation (`ReservationStep`), given that a new one takes an unused
identifier.  `CacheIsLedger` is the interesting one: the stock is read in one
statement and written absolutely in another.  The invariant `Ledgers` adds
`QtyIsCurrent` (a confirmation that has read a row still knows its quantity, or
read that there was none) and `RowHeldOnce` (a row that exists is held by one
confirmation).  Neither alone is inductive: of two confirmations that found no
row, the first makes the other's value stale.  With a batch the unique constraint
then refuses it; without one it inserts a second row, and the theorem is about
the sum of both, which no later confirmation changes.  `GoodsAreWhereReserved` and
`CodesAreWhereStamped` add `Planned`: a confirmation that will not redirect its
reservation still sees it where it scanned, or another confirmation has placed
the goods already; stock never shrinks in this flow (`StockGrows`).

`ShelvesAddUp` is the same property seen from the products: `Balanced` compares
the sum over all cells with the boxes that confirmations counted, and is kept
because stock and count grow in the same commit, by the same boxes, in the row
that was read or in a second one.
`SuggestionsHold` needs no more than types: it compares the hard constraints of a
suggestion, the manual search and the check of `reserve_slot`, each of which
counts the free room with a query of its own; `HeldMonotone` says that leaving out
overdue holds, as a reservation does and a suggestion does not, only makes room.  `NothingOverbookedAlone` and
`FullAreOccupiedAlone` have the hypothesis of one operator, since with two the
first is false (`PutawayRace`) and so is the second (two confirmations of
different products, which no row lock puts in order, each count the pallets without
the other's).  Capacity is a matter of a product, so `NoOverbooking` says of a cell that stock and
holds are no more than it takes of *one* of the products among them, whichever of
the holds are released first; with mixed products the code promises no more.  The
invariant `RoomKept` says this of every cell
unless an override is on record, *and* what
the one open transaction read: the room its reservation needs is still there when it
commits, although the expiry workers and the managers go on beside it.  They
only ever free room.  `FullAreOccupiedAlone` asks that managers set no status
but occupied or blocked: a PATCH to "free" empties the flag of a full cell.

**PickingProofs.**  One invariant, `PickInv`, over every overlap of requests:
types, `PickedOnce` (an order is planned by one session at a time, and an order
nobody booked has an empty route) and `NeverOverfilled` itself.  What it rests on is the plan.  `Take` gives each row
what is left of the line after the rows before it, so that a line's rows sum to at
most the line (`TakeAll`, by induction over the rows taken so far) whatever the
stock is; the clamps of `execute_pick_plan` only lower that (`LineBooked`,
`BookedFits`), and nothing but a booking writes a route.  Hence `NoOrderOverfilled` has no hypothesis.
`FirstExpiredFirstOut` is a property of steps: `Before` is shown to be a total
order (`BeforeIsOrder`), a row is given boxes only if every row before it was
emptied of its free boxes (`PlannedFirst`), and this survives the lines booked one
after the other, with rows read fresh for the first and stale for the next
(`BookedFirst`).
`OrderLinesFindStock` compares the order list, the plan of a pick task and the
plan of a wave on the same tables; it is about three ways of summing, and holds
in every state with the right types.

The sums over cells have hypotheses, and each is a disagreement listed below.
`PickingKeepsBoxes` excludes the open-pallet bench, which makes boxes of a
leftover, `create_movement`, whose clamp at zero does too, and shipments, which
are deducted twice (`PickingTwiceDeducted`).  `LedgerIsStockLessPromises` is about
the time before the first shipment, and allows requests that will ship; but not
beside releases, because a release that read an order as open before its shipment
committed cancels it afterwards, and then no order counts as shipped and boxes
are gone.  Both use `Unused`, that requests of a kind that does not come in are never
under way, and `LedgerKept` compares each `BOOK` entry with what was booked on
the rows in the same commit.  `BookingsBackedAlone` is for one request at a time, since
two that book from loaded objects promise the same boxes; its invariant `Backed(s)`
says what the one open request has read and, of a shipment, how many boxes the
items of the route still to be deducted have booked on each row; `ItemTaken` takes
one off the sum, and `DeductedRow` shows that nothing is cut off at zero.  Goods with a batch are excluded where orders are
shipped, as the endpoint deducts the row without a batch.

**FloorProofs.**  One invariant, `FloorInv`, carries five theorems over every
request of the floor.  `StockInv` joins the two properties of the stock with
`SeenIsStored` (what a posting read under its row lock is still what is stored,
unless it is marked overtaken) and `NoRowNoStock`; the same lemma then serves
every caller of `ledger.record`, since each is a `Post`, a `Write` and a `Settle`.
`TaskInv` has `TasksPlaced`: an open task has been placed by nobody, or by a
confirmation that is about to close it; `KindsFit` says that only a putaway task
has such a confirmation.  `LookupFindsOneBatch` has an invariant of its own,
`BatchInv`, for the transactions about to create a batch (`NoneYet`); every
request that touches no batch is covered by one lemma (`Quiet`).

**OutboxProofs.**  `ApprovalGate` rests on `Gate`: an unapproved message that
needs approval is held, so it is in no batch.  `SentWasAnswered` rests on
`Receipts`, which ties the answer a worker holds to what the other system said: a
reception, or a refusal that the worker took for one.
`NoOtherDuplicates` rests on `Once`: a message that no fault exposed is in one
batch at most, and while it is unsent it has not been received.
`NotGivenUpEarly` rests on `Retries`: the attempts loaded with a batch are those
of the row unless the message is shared.

**OfficeProofs, settings.**  Three properties of a connector's row with one
invariant, `SettingsInv`.  `CopiesCurrent` is why overlapping writers do not matter until one
is overtaken: a copy not marked so equals the row.  `KeysKnown` is what the key
needs: one refresh at a time, and the key it is about to store is the registry's
and differs from its copy's, so that the UPDATE really names the credentials.
`NothingMissed` says of every copy's watermark, not only of the stored one, that no
change before it is missing (`Brings`), because a stale copy may be written
back; and of the day of a fetch, once its items are stored, that it may become
the watermark (`Knows`).  `SettingsSurvive` is then one case per request.

**OfficeProofs, the trees.**  `DescendsWithin` and `DescendsTo` say what a walk down
some levels cannot leave and what it must find; from them and the packing
assumption: a code's root by any partial answer is in its pallet (`RootInPallet`),
so is all that is found below it (`TreeInPallet`), a pallet's tree is the whole of
it (`InsideIsWhole`), and stored codes that hang together are all found when the
pallet is stamped (`LinkedIsFound`).  `TreeInv` then says of every pallet nothing
unhandled happened to: its codes lie together; one request at most has it in hand
(`OneBuilds`), was told where it lies and saw its codes as they are, and a code
it may fail to find is stamped with that place already if all hang together
(`Stamping`); and if none has it in hand, the codes are where they lie (`AtRest`).
The proof failed first on a fetch of two trees: while the first is built, another
request may carry the second pallet away, which the fetch then stamps with the
old place.  With one pallet TLC could not see it; the run has two since.
`PalletsCountAsPacked` needs of all this only that a stored parent is the
registry's (`MarksTyped`), and that the levels below a code are inside it.

**OfficeProofs, the rest.**  `ScreensCatchUp`: at every moment, and not only when a screen is
at rest, the event of a change is lost, in the queue or heard, and what was heard
is shown, fetched too early or about to be fetched.  `LoginsHaveOneToken`: a
request that rotates a token found it live, and if it no longer is, or another
request rotates it too, the login was raced for.  `PicksAreScanned`: the copy of an overlapping scan knows at most what is
true (`ScanTrue`): whatever it writes back, a code it leaves out was accepted.  A
release about to cancel tasks knows none that is scanned to the end, unless one is
excepted already (`ReleaseTrue`).

**OfflineQueueProofs.**  `QueueInv`: while no two threads have raced, one thread
edits the file (`OneEditor`, with the temporary file being what the edit makes of
the file), every entry was added once (`AddedOnce`), its attempts are those that
were made (`AttemptsMade`), it was taken out for a reason (`TakenOnce`) and what was
promised is there (`Kept`).  A crash between writing and renaming leaves all of it
true, because only the rename changes the file.

**CircuitBreakerProofs.**  One invariant ties the counter to the streak and the
half-open flag to an open circuit; the three properties follow.
`ConnectorImplementsBreaker` is the refinement, step by step: a request's begin,
its outcome, its cancellation and the passing of time are the steps of the breaker
of the same name, the attempts in between are stutters, and `UpIsWorks` says that
the abstract `up` is "the remote system answers what this client counts as an
answer".

What stays with TLC: all liveness (fairness and ENABLED are beyond the prover), the
refinement's among it.  Every safety property of a passing run is stated by a theorem;
where it has a hypothesis, the run satisfies it too.

## Where the code and its intent differ

Shown by a run: overlapping reservations overbook (`PutawayRace`), a shipment is
deducted twice (`PickingTwiceDeducted`), workers send twice
(`OutboxDoubleSend`).  Found while modelling, and kept in the models as the code
has it (paths under `src/wms/app` unless said otherwise):

Putaway and slotting
* Two overlapping confirmations of one reservation both place the goods; a
  commit overwrites a reservation that was cancelled or expired meanwhile as
  confirmed.  The mixing check looks at stock and not at pending holds; the
  status of the reserved cell is not checked again when confirming.
* A code can be reserved again after its confirmation.
* Room is counted in boxes of the product asked for, whatever boxes of other
  products are there (`slotting.py:210`, `putaway.py:442`): a cell of mixed products with
  different pallet sizes takes more than its places hold, with one operator too.
  A mixed cell is one of a zone that allows it, or one that was overridden.
* Two first confirmations of goods without a batch insert two rows, since the
  unique constraint does not compare NULLs (`models/inventory.py:179`); after that every
  confirmation of the product at that cell fails (`ledger.py:120`).
* A suggestion asks for some room left, not for room for the quantity, and leaves
  out occupied cells that a reservation would accept; it counts holds that are
  overdue, which a reservation does not.  The search applies its SQL LIMIT, in no
  order, before any check, so that it may find nothing where there is room.

Picking and shipment
* `open_partial_pallet` records the leftover of a broken pallet with a positive
  quantity at the bench and nothing at the source: boxes appear
  (`services/picking.py:280`, `ledger.py:53-69`).  An emptied pallet can be marked
  open again (271 after 161).
* `execute_pick_plan` re-reads locked rows into objects it already has, without
  refreshing them (139): two overlapping pick tasks can promise the same boxes.
* The second deduction can violate a CHECK constraint, and then the order cannot
  be confirmed at all; `LoneOrderShips` therefore speaks of the only order.  Even that
  one is refused whenever it is confirmed if two of its lines share a row that the
  first, deducted twice, leaves with less than the second has booked
  (lines of 1 and 2 boxes on a row of 3).
  The endpoint passes no batch (`shipment.py` 884-894), so goods with a batch are
  not deducted where they were picked.  A batch that is quarantined after
  booking is shipped all the same.
* Shipping does not look at the scans, though the docstring has "all picks done"
  (`shipment.py:840`); picked codes are never taken off their location, and the
  codes attached to Smartup's lines are the planned and not the scanned ones.  A
  scan in flight can turn a cancelled task into a completed one, and two can lose
  each other's code (`shipment.py:809`).
* A sibling record's stock is mapped to the first line of its trade unit
  (`_line_for_product`, `shipment.py:657`), so its codes can be attached to
  another line.
* A wave's plan knows no sibling records; the order list counts blocked batches as
  available; the `available` of a shortfall mixes pieces and boxes
  (`shipment.py:523`).
* `release_bookings` writes no ledger entry, so reconciliation keeps counting the
  BOOKs.  With a `product_id`, which the panel never sends, it would cancel the
  documents of every product and free the bookings of one.  A pick booked between
  its two reads keeps its document and loses its bookings.  A task completed by its
  last scan between the read and the write of the tasks is cancelled all the same
  (`endpoints/stock.py` 450-466).
* Reconciliation sums BOOK entries as if goods had left
  (`reconciliation.py:88-101`); `LedgerCountsPromises` says what the sum is.

The floor
* `create_movement` takes what is there and adds what was asked: the clamp at
  0 makes boxes.  A replenishment executed twice moves twice.
* `create_inventory_count` writes from a row it read without a lock
  (`operations.py` 246-275), over whatever was posted meanwhile; a cycle count
  repairs the cache and leaves the ledger as far off as it was.
* A return that is written off deducts stock that was never added, though a
  comment says that none is created (`operations.py:435`).
* One code received twice makes two putaway tasks; two overlapping confirmations
  of one task place its goods twice; an ASSIGNED task cannot be confirmed.
* A released batch beside a newer one of its date leaves two AVAILABLE rows, and
  every later receipt of that date fails.  Two rows of one cell with a NULL batch
  do the same to the cell.
* A row that a return put in quarantine keeps its status for ever.

Connectors
* An HTTP 200 that carries `success: false` is marked sent (`smartup.py` 273-280 and
  406-432 return a boolean that `outbox_worker.py` 54-72 drops): `SentMeansAnswered`
  says only that there was an answer.  A rejected
  message can still be sent, when it was approved by an overlapping request; with
  two workers a sent message can be overwritten as failed.
* A breaker lets any number of trial calls through, and the success of a call
  from before closes an open breaker.
* The web form saves a connector with `settings: {}` and drops policy, watermark
  and cooldown (`endpoints/connectors.py:84`).  A new key is lost if the process dies
  between the registry's answer and the commit (`worker/key_refresh.py:63`).
* `sync_worker.py` 82-84 says that the other flows continue after one failed; a
  failure with a transaction open expires the row, and then all later flows fail.
* The watermark compares days, so `NoMissedChanges` assumes that this server and
  Smartup have one calendar.

Codes and screens
* Confirming one box of a pallet stamps the codes of the whole pallet.  A
  registry that does not answer for a box makes it a root and cuts its link.
  Receipts add no links, and movements do not change where codes lie.
* A fetch of several trees (`endpoints/stock.py` 142-172) stamps the later ones with
  the location it read before the first, though a confirmation may have moved
  their pallet meanwhile.
* A pallet scanned before its tree is known counts as one box, and a code with a
  GTIN of its own counts as one whatever it holds.
* Events are published before the commit (`services/ledger.py:88`,
  `services/putaway.py:767`), a full queue drops them, and a browser that
  reconnects fetches nothing (`src/wms/frontend/src/lib/realtime.ts:57`).  A stream
  outlives the logout of its user.
* The terminal's lock is per object: two threads lose operations.

## Not modelled

Components with status `not_modelled` in `PROJECT.json`, each with the reason:
pure I/O, edits of one row that no other request's decision reads, read-only
queries and formatting.  Partly modelled ones say what is left out; most of it is
data that no property tells apart (documents, priorities, scores, ABC classes,
pack conversions of a line) or rows that another module of this directory has.
Of GTINs only those of the codes themselves count; the ones that `private_codes` adds are
left out.

The modules meet at two seams that no run crosses.  `Picking`, `Putaway` and
`Floor` each work on the stock with the requests of their own family; together
they would be one module of some forty actions, beyond what TLC can exhaust, and
each takes what the others may do to a row from its own writers.  `Outbox` starts
from messages that exist: which request enqueues them is not tied to the stock it
posts, though both are one transaction in the code.

In the warehouse map one disagreement stands beside the models: `delete_zone`'s
docstring (`endpoints/warehouses.py:150`) says that the empty cells of a zone go
with it.  A cell in which something once stood is still referred to by its
ledger entries, its stock row of quantity 0 or a reservation, so that the foreign
key makes the request fail.
