# point_of_sale: a TLA+ model of the inventory backend

This directory holds TLA+ specifications of the multi-tenant POS inventory
system in this repository, TLC configurations that check them on small
instances, and TLAPS proofs for every value of their constants. Paths below are
relative to `backend/src/pos_inventory/` unless they start with `frontend/`,
`backend/` or `specs/`.

Run inside this directory: `tlc -config MCLedgerTx.cfg MCLedgerTx` (and the
same for every other `MC*.cfg` with the module it instantiates),
`tlapm LedgerTxProofs.tla` (and the same for the other `*Proofs.tla`).

## 1. The system

A FastAPI server over synchronous SQLAlchemy and PostgreSQL, and a React client
for registers and back office. **One HTTP request is one database
transaction**: `core/db.py get_session` opens a session, the handler and the
services it calls execute SQL through it, and the session commits when the
handler returns, rolls back when it raises, and is closed either way. The
isolation level is PostgreSQL's default, READ COMMITTED. Concurrency control is
therefore what each service asks for itself: `SELECT ... FOR UPDATE`, unique
indexes, `ON CONFLICT`, `SKIP LOCKED`, or nothing.

| component | state | operations | talks to |
|---|---|---|---|
| inventory ledger (`domain/inventory`) | `inv.ledger` (append-only), `inv.balance`, `inv.cost_layer` | `post_movement`, `assert_can_sell` | called by every service that moves stock |
| serial lifecycle (`domain/serials`) | `inv.serial` | reserve, sell, return_, mark_rma_pending, mark_rma_closed, mark_scrapped, validate_sale, lookup | called by returns, RMAs, sales |
| purchase orders, receiving (`domain/purchase_orders`) | `po.purchase_order(_line)`, `po.receipt*` | create, submit, approve, send, cancel, post_receipt | ledger, serials |
| transfers (`domain/transfers`) | `xfr.transfer*` | create, ship, receive | ledger, locations |
| customer returns (`domain/returns`) | `ret.customer_return*` | post_return | ledger, serials |
| vendor RMAs (`domain/rmas`) | `rma.vendor_rma*` | create, ship, close | ledger, serials |
| POS intake (`api/v1/pos_intake.py`) | the unique index on `inv.ledger.client_intake_id` | post_sales (batches, idempotent) | sale guard, ledger |
| offline queue (`frontend/pos/src/lib/offline-queue.ts`, `useSale.ts`) | IndexedDB store of envelopes, online flag | enqueue, drain, heartbeat | POS intake |
| count sessions (`domain/counts`) | `cnt.*`, `inv.adjustment` | create (snapshot), assign, submit entries, variance, approve | ledger |
| locations (`domain/locations`) | `inv.site`, `inv.location` | create, list, get_or_create_in_transit | transfers |
| customers (`domain/customers`) | `cust.customer`, `cust.change`, `cust.merge` | create, update (If-Match), state changes, anonymise, merge, resolve | messaging, history |
| customer addresses (`api/v1/customer_addresses.py`) | `cust.customer_address` | create, update, delete, one default per kind | customers |
| consent (`domain/consent`) | `consent.event`, `consent.state` | record_event, assert_allowed | messaging, provider callbacks |
| messaging (`domain/messaging`, `api/v1/customer_messages.py`) | `msg.message`, `msg.message_status_event`, `msg.outbox` | send, retry, provider callback | worker, consent |
| outbox worker (`workers/outbox_worker.py`) | `outbox.event`, `msg.outbox` | two polling loops with backoff | webhook, provider |
| core (`core`) | none of its own | sessions, tenancy, auth, errors, audit, events | everything |
| web pages (`frontend/pos/src/features`) | none beyond the request | forms and tables over the API | API |

### What is hard, and what makes each part correct

* **Ledger.** Interleaving of statements of concurrent requests, row locks and
  rows that do not exist yet, stale reads, deadlocks, crashes. Correct when the
  balance is the ledger summed, nothing goes negative, requests are atomic and
  isolated, and every request ends.
* **Serials and the documents that move them.** Long legal sequences of calls
  from five services, each writing state and location its own way. Correct when
  state, location, balance and ledger agree with where units are, units in
  transit are explained by one transfer, terminal states are terminal, and
  costs survive.
* **Purchasing.** A cancellation racing with a receipt, receipts racing on a
  line, refusals in the middle of a receipt, which receipt closes the order.
  Correct when totals stay within tolerance, nothing is received for an
  unapproved or cancelled order, and closed means complete, both ways.
* **POS intake and queue.** Lost replies, retries, duplicates inside batches.
  Correct when each sale leaves the stock once and what a client is told is so.
* **Counts.** A snapshot, a window by client-supplied times, approval with an
  unlocked read. Correct when an approved count leaves the counted quantity.
* **Customers.** Optimistic versions compared outside the UPDATE, merges in
  opposite directions. Correct when no update is lost and resolution ends.
* **Messaging and outbox.** At-least-once delivery, status reports out of
  order, consent withdrawn between queueing and sending.

The `hazards` of `PROJECT.json` list these at their lines, each with the
properties that cover it or the reason why none does.

## 2. The modules

### `StockLedger` - what the ledger promises
The abstract specification: a request is a list of movements that takes effect
in one step on the balance (`onHand`) and the ledger total (`posted`), and only
if the stock is there.

### `LedgerTx` - `post_movement`, one statement per step
`Txns` requests each run a list of movements. The committed rows are `exists`,
`onHand`, `posted`; `lock` is the row lock (or the uncommitted insert) on a
balance row; the rest is what a transaction has in hand (`todo`, `seen`) and
has written and not committed (`wrote`, `draft`, `delta`).

| action | code |
|---|---|
| `Begin` | a request reaches `tenant_session` |
| `AssertCanSell` | `assert_can_sell`, a plain SELECT |
| `LockBalance`, `MissBalance`, `InsertBalance` | `_ensure_balance_locked`: the SELECT FOR UPDATE that finds a row, the one that does not, the INSERT ON CONFLICT DO NOTHING |
| `PostMovement` | layers, on-hand check, UPDATE of the balance, INSERT of the ledger row |
| `Commit`, `Conflict` | `get_session` after a return, after an exception |
| `BreakDeadlock`, `Crash` | PostgreSQL aborts one statement of a deadlock; a process or connection dies |

PostgreSQL is modelled by the part the code relies on: FOR UPDATE waits and
rereads, a SELECT neither sees nor awaits another transaction's insert, an
INSERT waits for a conflicting one, locks go at the end of the transaction,
cycles of waiters are broken. Cost layers have no variable: at a key their sum
is the ledger's sum by construction of `_consume_fifo`, and their unit costs
are not modelled yet. Lock order *within* one movement (balance row first, then
layers of the same key) adds no waits of its own.

### `SerialInventory` - serialized units and five kinds of documents
One action per service call, each one transaction. `state`, `loc`, `cost` are
the `inv.serial` row; `onHand` the balances; `lastIn` and `saleRow` the two
facts of the ledger that the code or its daily check reads; `xfer` and `rma`
the documents. `holder` is not in the code: it is where the unit physically is.
No service looks at where a unit is, and returns, transfers and RMA shipments
not at its state either. So a document may name any unit: one that is elsewhere
(a number mistyped, a label swapped) gets all that the code writes and stays
where it is; `misnamed` keeps it and `slips` counts how often that happened, up to
the bound `MaxSlips` (`Hand`). What the properties say of places is about units
never misnamed, and of balances within the number of slips.

A sale of a serial is `validate_sale`, `post_movement` and `serials.sell` by
one caller. The repository has no endpoint that does so yet (intake refuses
serialized SKUs); the action follows the contract in the docstring of
`domain/serials/service.py`. Lines are of one serialized unit per quantity.

### `Purchasing` - orders and receipts
`Transition` is one short transaction. A receipt is `OpenReceipt` (the order is
locked and its state checked), `ReceiveLine` per line, then `CommitReceipt` or
`AbortReceipt`; until then its work is in `add[t]`, invisible to others, and
the order and the touched lines are locked. A receipt may name any lines, any
number of times, as the code lets it; `untidy` keeps the orders for which that
matters (`MixedUp`): those of a line that is not of the receipt's order, and the
order of a line that was left short and is named again, as `all_lines_complete`
then stays false (`receiving.py:269`). A repeated line's total is right:
`_load_po_line` reads it again.

### `PosIntake` - idempotent sale intake
`Envelope` is one turn of the loop in `post_sales` as a function from the state
of the request to its next state; `Outcome` folds it over the batch;
`PostSales` commits or rolls back and answers. The rollback inside the loop on
a duplicate (`Duplicate`) takes back everything the request did before, and
under a role subject to row-level security the tenant setting with it, so later
envelopes find no SKU and the batch fails. Clients post any batch as often as
they like, and a batch may list a sale more than once; requests get lost (`Lose`),
stock comes in (`Supply`). A second copy in the same batch runs into the first
one's row and takes it back: [a, a] of a new sale is answered `accepted` and
`already_processed` with nothing recorded. `Repeated` in `ProcessedIsRecorded` is
this case. A request is
one step because all copies of an envelope lock the same balance row before
they reach the unique index. An envelope has at most one line per SKU and at
least one line. What clients do with the answers is `OfflineQueue`.

### `OfflineQueue` - the register's queue, over `PosIntake`
EXTENDS `PosIntake`: the server's actions are the same definitions. JavaScript
runs to the next `await`, so a step is what runs between two.

| action | code (`frontend/pos/src`) |
|---|---|
| `Enqueue` | `lib/offline-queue.ts enqueue` |
| `SubmitSale` | `features/sales/useSale.ts submitSale`: its envelope has no `register_id`, so the server answers 422 |
| `CaptureWhole` | a caller that asks `isOnline()` first and does send one |
| `Begin`, `Loop` | `drain`: `getAll`, then the head of the snapshot is posted |
| `Answer`, `NoAnswer` | the awaited POST: 200, an error, or nothing |
| `Delete` | `_delete`, and the loop goes on |
| `Tick`, `OnlineEvent`, `GoOffline` | `startOnlineHeartbeat` and the browser's events |
| `Reload` | the page is closed and loaded; IndexedDB stays |

`Drains` drains may be under way at once, each with the snapshot it took. An
IndexedDB write is taken to be durable when `enqueue` resolves.

### `Counts` - count sessions
`epoch` numbers stand for time: every session's `now` starts a new one, and a
movement's `occurred_at` is any epoch that has begun. A step is one statement's
read or one commit; `Move` is every other request's `post_movement`.

| action | code (`domain/counts`) |
|---|---|
| `CreateSession`, `ScopePairs` | `service.create_session`: `now`; the SELECT of the balances, and the commit |
| `CheckEntries`, `SubmitEntries` | `service.submit_entries`: state read; entries, UPDATE to submitted if open |
| `BeginApproval` | `approve.approve_session` reads the state, without a lock |
| `ReadDelta`, `ReadCounted` | `variance.compute_variance`, two reads per snapshot row |
| `Approve`, `AbortApproval` | adjustments and movements, the state, the commit; or a rollback |

`astray` and `stale` are history: keys moved on the wrong side of a session's
opening, and keys changed after an approval read them. `ApprovedIsCounted` says
that an approval is right everywhere else, so these two are all that can go
wrong.

### `Customers` - profiles, merges, addresses
No handler locks the row it checks. So each is two actions, what it reads and
what it writes: `BeginCreate` / `InsertCustomer`, `BeginUpdate` / `Update`,
`BeginSetState` / `SetState`, `BeginAnonymize` / `Anonymize`, `BeginMerge` /
`RewriteReturns` / `Merge`, `BeginAddress` / `PutAddress`, and `DeleteAddress`.
`Abort` is a constraint's refusal or a request that dies. `logged` is the
change log as the code writes it: creating logs no field (`was` is the profile
created, which no row holds), an update one row per changed field, of which the
last is kept, and anonymizing only the state, so the log keeps the last e-mail and
tax id. `owner` is the customer of each return. Two history variables name the
races: `stale`, customers updated from a version no longer theirs, and
`lapsed`, customers of merges that overlapped. The unique indexes and CHECKs are guards of the writing action. A
profile is one contact, one sensitive field and its state.

### `Messaging` - consent, messages, callbacks, outbox
One customer and one channel.

| action | code |
|---|---|
| `CheckSend`, `SendMessage` | `messaging/service.send_message`: known id, template, consent gate; message and outbox row |
| `CheckRetry`, `RetryMessage` | `retry_message` |
| `ProviderCallback` | `api/v1/customer_messages.provider_callback` |
| `RecordEvent` | `consent/service.record_event` |
| `UpdateTemplate`, `ReadTemplate`, `DisableTemplate` | `api/v1/message_templates.py` |
| `EmitEvent` | `core/events.emit_event` of any other transaction |
| `Claim`, `Attempt`, `AnswerLost`, `CommitBatch` | `workers/outbox_worker.py`: SELECT FOR UPDATE SKIP LOCKED, one call per row, one commit |
| `BackoffEnds`, `Die` | `next_attempt_at` passes; the worker fails and starts again |

The provider and the webhook (external) take a message, refuse it, or raise;
or they take it and the call raises all the same (`AnswerLost`: a lost answer, or
one later than the timeout). `calls` counts what they took, `unheard` what they took
unheard. `Undeliverable` rows always raise (a message or payload that is missing).
A worker's results are its own until its commit.
Provider message ids are taken to be distinct.

### `Schemas`: which tables are meant
Some statements of the code do not fit the tables that `backend/alembic`
creates: an ON CONFLICT without a matching index, event kinds and sources that
a CHECK does not know, columns of `outbox.event` that are not there, a
`get_engine` that `core/db.py` does not define. Rather than model only one
reading, `Customers`, `Messaging` and `Counts` have a variable `schema` that is
chosen at the start and never changes. With `"migrated"` the tables are as the
migrations make them: such a statement fails and its request rolls back, so
creating a customer, anonymizing, recording consent, approving a count and the
outbox worker never succeed. With `"queried"` the tables are what the
statements are written for. The properties hold under both, and what they say
of those operations comes from `"queried"`.

`MC*.tla` define small constants and symmetry sets; `*Proofs.tla` hold theorems.

## 3. The runs

| run | states | what it asks |
|---|---|---|
| `ledger_tx` | 26,627 | Three requests, four shapes of request (receipt, guarded sale, two-key moves in both orders), two keys with rows and one without. Safety, `Serializable` (every committed history is one of `StockLedger`), and `EveryRequestEnds`. |
| `ledger_first_movement` | violation | `BalanceMatchesLedger` at keys with no row yet. |
| `serials` | 434,953 | Two units, two stores (one restricted), two transfers, one RMA, one slip; every order of all calls. |
| `serial_returns` | violation | `OnlySoldAreReturned`. |
| `purchasing` | 14,629 | Two orders, two lines, quantities 1 and 2, tolerance 50 %, four role sets, two receipts at a time. |
| `pos_intake_batch` | violation | `AcceptedIsRecorded` for batches. |
| `offline_queue` | 37,048 | Three sales, one of two lines and short of stock until a unit comes in, one without `register_id`; two drains at once, another client posting a batch of two of them that lists one twice, lost requests and replies, reloads, both kinds of database role. The intake's own properties (`EachSaleOnce`, `AcceptedUnlessDuplicates`, `ProcessedIsRecorded`) are checked here, with the register as one of its clients. |
| `offline_queue_reload` | violation | `ReconciledWhileOnline`. |
| `counts` | 251,208 | Two sessions over two keys (one without a balance row), two approvals and one entry request at once, one movement dated before or after. |
| `customers` | 114,876 | Three customers with two returns and two address ids; three requests, two at once, of every kind. |
| `customers_lost_update` | violation | `UpdatesTheVersionNamed`. |
| `messaging` | 118,544 | Two workers with batches of two, three outbox rows of which the first always raises, three requests or callbacks, one lost answer or death; `OutboxDrains`. |

Counts are distinct states (of orbits, where there is symmetry).

**Bounds, and why they are enough.** Three transactions give every pairwise
race plus a bystander who may hold what both want, and a cycle of waiters of
length two next to a third; a fourth adds no new kind of wait. Two keys in
opposite orders give deadlock; the third, without a row, gives the insert race.
Two units tell "this one" from "another one on the same document"; two
transfers let a unit be shipped twice; one slip is one document that names the
other unit (`MaxSlips = 2`, 1,946,719 states, passed as well). Two receipts
and two lines give partial, split, raced and completing receipts; tolerance 50 % with quantities 1 and 2
gives exactly-at, within and above the limit. In `Counts` one movement is
enough for every order of it with a snapshot, a window and two approvals
(`MaxEntries = 2`, 1.47 million states, passed as well). In `Customers` a race
needs two open requests, and a third before or after them sets up or uses what
they leave (four requests and two e-mails, 657,966 states, passed as well). In
`Messaging` `MaxRequests` bounds API requests, callbacks and events together,
and `MaxMishaps` deaths and lost answers together; a batch of two rows has a first
row done when the worker dies at the second, and a third row is behind a full
batch (`MaxMishaps = 2`, 349,777 states, passed as well). In `PosIntake`
`MaxInFlight` bounds the copies of each request and `MaxSupply` the units
received; one sale has no stock at first, so refusals happen and can later turn
into acceptances. A sale of a serialized SKU is refused by intake whatever else
happens; only the instance of `pos_intake_batch` has one.

**Deadlock checking is off** everywhere because the bounded systems do stop:
the requests of `LedgerTx` all end, transfers, RMAs, orders and lines are used
up, an RMA shipped with units that are not `rma_pending` can never be closed,
and the bounded counters of `Counts`, `Customers` and `Messaging` run out.

**Symmetry** is used only in runs without liveness (`serials`, `purchasing`,
`counts`, `customers`).

**Fairness** is stated where there is liveness:

* `LedgerTx`: weak fairness of each open request's next statement (a server
  thread runs its handler to the end, and every wait is for a row lock) and of
  the deadlock detector (PostgreSQL runs it after `deadlock_timeout`).
* `OfflineQueue`: strong fairness of an answer and of the callback after it, per
  drain: a drain that posts again and again is answered some time.
* `Messaging`: strong fairness of claiming each of the two kinds (the loop does
  one after the other and starts again after an exception), weak fairness of a
  batch going on and of a backoff's end, and strong fairness of a deliverable
  row being taken: a provider asked about it again and again does not raise every
  time. Of `Undeliverable` rows nothing is assumed: they raise every time.

Nothing makes a request arrive, a user act, a connection come back or a process
die. `DrainedOnReconnect` and `ReconciledWhileOnline` have what the connection
must do as their premise.

### What the failing runs show

* **First movements race** (`domain/inventory/ledger.py:64-75`). Two requests
  find no balance row; the second one's INSERT does nothing and it still takes
  the balance to be 0, without a lock, and overwrites the first one's on-hand.
  The ledger holds both movements, the balance one. `NeverOverstated` and
  `NoNegativeStock` hold all the same: stock is hidden, not oversold.
* **Returns of units never sold** (`domain/returns/service.py:172`). A return with
  receipt names a sellable unit that is not the one in hand; the row becomes
  `returned`. So does a scrapped or a credited one's: only the scrap disposition
  goes through the lifecycle.
* **Accepted and rolled back** (`api/v1/pos_intake.py:109`). In a batch, a
  duplicate after a new envelope undoes the new one and reports it accepted, also
  when the new one is its own first copy in the batch. Replies that call no sale
  `already_processed` are right (`AcceptedUnlessDuplicates`), and
  `offline-queue.ts` posts one envelope at a time and is not exposed.
* **Queued sales wait for a reconnection** (`frontend/pos/src/lib/offline-queue.ts:115`).
  The heartbeat drains on a change from offline to online. A sale captured offline
  and a page then loaded online: no drain starts while it stays online.
  (`CapturedIsKept`: they are not lost. `DrainedOnReconnect`: reconnecting helps.)
* **Lost update** (`domain/customers/write_service.py:251`). The version is
  compared with an unlocked read and the UPDATE is by id alone: of two updates
  with the same If-Match both succeed.

## 4. What is proved

All proof modules follow one argument: an inductive invariant is shown to hold
initially, to be kept by every action (one step per action, one lemma per part
of it), and to imply the property. Every safety property that a passing run
checks is proved, with the exceptions its own statement names, for every value of the constants its module's assumptions
allow. Where TLC enumerates the same state space it has checked the invariant
first.

**`LedgerTxProofs`**, from the assumptions on the constants in `LedgerTx`
(opening stock natural, movements non-zero, guarded ones negative):

* The invariant joins the typing of all variables to: who may hold which lock
  at which statement; that what a transaction read under a lock of a committed
  row (`seen`) is still what it would read now; that drafts exist only for keys
  it wrote and holds; that at a provisioned key draft minus committed balance is
  the sum of its ledger rows; and that at every other key a draft never exceeds
  the ledger it sees. It is needed because none of the properties speaks of
  uncommitted work, and a commit publishes exactly that.
* Theorems `TypeCorrect`, `StockNeverNegative`, `BalanceIsLedger`,
  `BalanceNeverOverstated`, `LockedReadsAreStable`: for any number of
  requests, keys and movements.
* `RequestsAreAtomic` is the refinement (`Serializable`, at the provisioned
  keys): the transactions, statement by statement, implement `StockLedger`.
  Every statement before the commit is a stutter of the abstract ledger, as is a
  rollback; a commit is one abstract request. The invariant it adds (`Progress`)
  says that what a transaction has posted is the sum over a prefix of its request
  and that the rest is what it has to do, so what it publishes is the request's
  net.

**`PurchasingProofs`**:

* The invariant adds to `TypeOK` that at most one open receipt is at an order
  and at most one has touched a line, that committed plus pending quantities
  are within the limit, that an order with an open receipt is in a state
  receipts are allowed in, and that lines of unborn orders are untouched.
* Theorems `TypeCorrect`, `ReceivedWithinTolerance`, `ClosedOrdersAreComplete`,
  `FinalStatesAreFinal`, `ApprovedBeforeReceived` and
  `FullyReceivedOrdersAreClosed`, none with an assumption on what receipts name;
  the last two are about orders outside `untidy` (of the others they are false: see
  the disagreements below), and the invariant has the same exception.

**`SerialInventoryProofs`**, for any number of units, stores, transfers and RMAs:

* The invariant adds to the properties that units of shipped transfers are in
  transit and on one of them (`ShippedOnce`), and that units of shipped RMAs are
  with the vendor (`VendorHolds`), misnamed units apart. It is needed because the documents, not the rows, decide what
  `receive` and `close_rma` do. Balances against units rest on one lemma,
  `MoveCounts`: a set of units that goes from one place to another changes both
  counts by its size.
* Theorems `TypeCorrect`, `BooksAreRight`, `LocationsAreRight`,
  `TransitIsExplained`, `LocationMatchesLedger`, for any number of slips. The code
  checks nothing of where units are: the theorems show that an error in the books
  comes from a document that named the wrong unit, and stays with that unit.

**`CustomersProofs`**, for any number of customers, requests and addresses:

* The invariant says of every open request that what it read is as read while
  the row's version is the one it names, that merges past their INSERT are of
  different merged-away customers, and that the tables meet their constraints.
* Theorems `TypeCorrect`, `MergesAreRecorded`, `ErasureLasts`, `LogIsComplete`;
  the last two are about customers outside `stale`.
* `ReturnsStayFound` (`ReturnsFollowMerges`) has an invariant of its own,
  `MergeInv`: an open merge has read a survivor who was not merged; the returns
  it moves are those of the customer it merges away, and any it misses are
  excused by an overlap. A way along `merged_into` has one customer at most
  whose link is not followed (`ChainOpen`), so a customer merged away is the
  end of every way that passes it, or the way is excused; what excuses a return
  does so for good (`ExcusedLasts`), as links are only added. The proof showed
  that the property needs its exception for long ways: `resolve_customer_id`
  gives up after five links, and no run merges that often.

**`MessagingProofs`**, for any number of messages, rows and workers:

* The invariant types the open requests (a send has passed the gate with the
  consent it read), says that claimed rows are pending and claimed by one
  worker, and that a row the provider took once for each of its lost answers and
  each death, and once more, is dispatched or will be at its worker's commit.
* Theorems `TypeCorrect`, `WaitingHasARow`, `TakenAgainOnlyUnheard`,
  `ConsentWhenQueued`.

**`PosIntakeProofs`**, for any number of sales, batches of any length, copies
of a request, and drains:

* The server's invariant is `TypeOK` and `EachSaleOnce`. Inside a request every
  envelope keeps the balance between stock and ledger (`Good`), through its
  savepoint and the rollback on a duplicate too; so does the fold over the batch,
  as there is no least prefix after which it would not.
* Theorems `TypeCorrect`, `StockLeavesOnce`, `ProcessedSalesAreRecorded`,
  `AcceptedSalesAreRecorded`, for batches of any length that list sales any number
  of times.
* `OfflineQueue` composes the register with this server. Its invariant adds that a
  drain about to delete an envelope has it at hand and the server has it on the
  ledger (`DrainsKnow`); as the ledger's rows only grow, a captured sale is in
  one place or the other. Theorems `QueueTypeCorrect`, `CapturedSalesAreKept`,
  `DeletedSalesAreRecorded`, and `RegisterIsAClient`: the composition implements
  the server's specification, so `QueuedStockLeavesOnce` follows from
  `StockLeavesOnce`.

**`CountsProofs`**, for any number of keys, sessions, counters, approvals and
movements:

* The invariant: no ledger row is dated in an epoch that has not begun; a session
  with its `now` and no snapshot has an empty window; one with its snapshot has
  at every key the balance that the snapshot and the window add up to; what an
  approval has read of window and entries is still so. All but for the keys in
  `astray` and `stale`: the proof shows that these are all the ways an
  approval can go wrong.
* Theorems `TypeCorrect`, `ApprovalsAreFinal`, `CountedIsApplied`.

**`SumTheorems`** is what three of them (ledger, intake, counts) need of the library's sum over a
set, which takes its elements in an order its CHOOSE leaves open: the sum is one
element and the sum of the rest, whichever that is (`SumTake`), it changes as a
summand does (`SumChange`), and depends on nothing else (`SumAgree`). Each is
proved by a least counterexample (a subset, or a length, of smallest size), which
needs no induction theorem.

For these proofs `Sales` and `Sessions` are assumed finite and no session is
called "none" (it stands for no session), `All`, the result of `getAll`, is defined as
the sequence in key order rather than by the library's sort, and sums are the
library's over functions.

**Only model-checked.** Liveness (`EveryRequestEnds`, `OutboxDrains`,
`DrainedOnReconnect`), which is outside the proof system, and the five
counterexamples of section 3, which are finite.

## 5. Not modelled

* **FIFO costs** of bulk stock. Bulk transfers and returns re-enter at cost 0
  (`transfers/service.py:212`, `:297`, `returns/service.py:198`).
* **Locations**: one in-transit location is assumed; two first shipments may
  create two (`domain/locations/service.py:70`).
* **Counting**: assignments, serialized and lot-tracked entries, and the
  read-only variance report.
* **Customers**: search, normalisation, redaction and history are functions over
  strings and reads. **Messaging**: creating templates, rendering, recipients,
  the status event log.
* **Row-level security, authentication**: PostgreSQL's and the token library's;
  role gates of purchasing are in `Purchasing`, of tax ids in `Customers`.
* **Fractional quantities**: all are integers in the models.
* **Read-only queries, web pages, seed scripts**: no state of the running system.
* **Commit before or after the response**: FastAPI is not pinned
  (`backend/pyproject.toml`); `PosIntake` has the commit first.
* **IndexedDB durability**: `withStore` resolves before its transaction completes
  (`frontend/pos/src/lib/offline-queue.ts:47`); `OfflineQueue` takes the put as
  done.

### Disagreements noted while reading, with no run of their own

* Transfers do not consult the serial lifecycle: a `returned`, `rma_pending` or
  scrapped unit that is transferred arrives `sellable`.
* `scripts/check_serial_single_location.py` counts every serial without a
  location as a violation, sold ones included, and imports a `get_engine` that
  `core/db.py` does not define. The comparison it makes elsewhere is
  `LocationIsLastInbound`, which holds of every unit never misnamed.
* A receipt may name lines of another order (`receiving.py:49`), and an order
  received short cannot be closed.
* A receipt that names a line twice, first a part and then the rest, leaves a fully
  received order in receiving (`receiving.py:269`), against user story 1,
  scenario 4 (`specs/001-inventory-management/spec.md:33`).
* Anyone may cancel an order (`state.py:41`), where FR-036 names two roles.
* The default over-receive tolerance is 10 % in `core/config.py` and 0 in the
  specification.
* Queued envelopes carry no `register_id`, which intake requires.
* Returns and RMAs: a return sets the serial's unit cost to 0,
  so every unit that reaches an RMA by way of a return is credited 0, against
  FR-035 (`domain/inventory/ledger.py:185`, `domain/rmas/service.py:158`); an RMA
  is created and shipped for units in any state, and one whose units are not all
  `rma_pending` can never be closed.
* A replayed envelope is not answered `already_processed`: the stock guard comes
  first, and what follows a real duplicate is a `TypeError`
  (`IdempotencyConflict` takes no keyword), a 500 (`pos_intake.py:85`, `:114`;
  `specs/001-inventory-management/quickstart.md:192`). It is not posted twice.
* Counts: `variance.py:88` reads `remaining_qty`, where the column is
  `qty_remaining`; entries sent twice add up; a key nobody counted is taken to
  be 0; a shortage of serialized units cannot be approved. `ApprovedIsCounted`
  holds outside `astray` and `stale`, where SC-004 has no exception.
* Customers: `_set_state` takes a merged customer back to `active`, where the data
  model calls `merged` terminal; anonymizing keeps addresses and the change log's values;
  merging leaves addresses and messages with the merged-away customer; a cashier
  who may not set a tax id clears it by leaving it out (`write_service.py:150`);
  the handler reads the row again after the commit, when the tenant setting is
  gone (`api/v1/customers.py:155`).
* Messaging: an unsubscription that arrives before the worker commits, or with
  an unknown id, is dropped (`api/v1/customer_messages.py:171`), against FR-032;
  a message whose call raises stays queued and is never shown as failed;
  `NullProvider` gives every message the same provider id; rows that always raise
  are never set aside and come first in every batch, so a full batch of them stops
  all behind it (`workers/outbox_worker.py:101`); consent is not asked for again
  when a message is inserted or sent.
* The register's queue keeps an envelope that the server refuses, and all behind
  it (`frontend/pos/src/lib/offline-queue.ts:93`): the premise of
  `DrainedOnReconnect`.
* The INSERT of a location lacks the column `code`.

## 6. Plan

1. `FifoValue`: cost layers with costs; value in equals value out plus value
   left, per movement kind; bulk transfers over two in-transit locations, with
   the race in `get_or_create_in_transit`.
2. Serialized and lot-tracked lines in `Counts`, and assignments.
3. `PosIntake` and `LedgerTx` composed: the steps of two copies of an envelope
   at the balance row and the unique index.
4. Proofs: an abstract specification of exactly-once intake that `PosIntake`
   implements, and the invariants of what 1 to 3 add.
