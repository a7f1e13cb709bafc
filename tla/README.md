# Formal model of the miguelt platform

TLA+ modules, TLC configurations and TLAPS proofs for the parts of this
repository where several requests meet on the same rows or on the same external
system: stock, sales, purchasing, production, transfers, counting and costing in
`inventory-service`, custody and blockchain anchoring in `trace-service`, invoice
numbering in `integration-service`, billing and the activation of modules in
`subscription-service`. Every
definition is translated from the source; `PROJECT.json` ("map") names the lines
each one stands for.

## The system

Seven FastAPI services, each with a PostgreSQL database of its own, behind an
nginx gateway, with a React client (`front-trace`). They call each other over
HTTP; Redis holds caches, idempotency marks and the queue of one worker. Within
a service all shared state is in PostgreSQL: a request opens one SQLAlchemy
session (`get_db`), which commits when the handler returns and rolls back when
it raises. Handlers are coroutines, so any two interleave at every `await`, and
several processes serve the same tables.

| component | state | operations | what is hard | what makes it correct |
|---|---|---|---|---|
| stock ledger (`stock_repo`, `stock_service`, `reservation_service`) | `stock_levels` (on hand, reserved, QC status) per product, warehouse, batch; `stock_movements`; `stock_reservations` | receive, issue, FEFO/LIFO dispatch, adjust, adjust in/out, return, waste, QC, reserve, release, transfers | reads before locks, several rows per request, rows deleted at zero, deadlocks | level = sum of movements; reserved within on hand; reservations backed and given back; quarantine respected |
| sales orders | order, lines, reservations, backorders, approval log | create, confirm, approve, pick, ship, deliver, return, cancel | status tested on a copy older than the lock; ship and return take none | one reservation per confirmation, one deduction per delivery, one restock per return |
| transfers, movement orders (WM) | levels of two places, in-transit quantity, transfer orders and their lines | transfer, initiate, complete, relocate, confirm line | two rows, two phases, status read without a lock, rows deleted at zero | places hold what the movements on record made of them |
| cycle counts | count, items, discrepancies, accuracy snapshot | create, start, record, recount, complete, approve, cancel | movements between snapshot, count and approval; two approvals | the error found is corrected once, movements are left alone |
| purchase orders | order, line, received quantity, consolidation | create, edit, approve, send, confirm, receive, cancel, delete, consolidate, deconsolidate | only a receipt locks; drafts and the order that combines them | never more received than ordered; no demand supplied twice; settled is settled |
| production | run, emissions, receipts, reservations, levels of material and product | release, emit, receive, close, cancel, delete, disassemble | no request locks its run; partial and excessive emissions | levels follow movements; reservations follow runs; no more output than planned |
| costing | cost layers, average on every level | layer in, layers out, average | layers shared by all levels; average computed before the wait for its rows | each unit of a layer charged once; the average is that of the layers |
| custody (`custody_service`, `workflow_service`, `registry_service`) | asset row (state, custodian, last hash), `custody_events`, wallet allowlist, workflow | create, handoff, arrived, loaded, QC, release, burn, generic event, wallet revocation | row lock on some paths only; wallets revoked meanwhile | events form one chain; terminal states seal it; custody is handed on without gaps |
| anchoring worker | events' `anchored`, attempts; ARQ queue with its job ids; circuit breaker | enqueue, anchor, retry, sweep | crash between memo and commit; lost answers; retries; Redis down | every event is anchored, once, unless it is given up |
| cNFT minting | blockchain status of the asset | mint, remint, retry sweep | a mint under way in a request while the sweep looks | minted once |
| invoice numbering (`resolution_service`, `routers/internal`) | resolutions: range, counter, active | create, deactivate, next number | counter raised under a lock that spans a provider's call; self-healing of seeded counters | numbers unique, consecutive, in range |
| integration connectors | configurations, sync log | sync, test | external services | — |
| subscription | subscription, invoices, marks in Redis, unmatched payments | webhook, pay, void, credit, cancel, reactivate, upgrade, hourly expiration | webhooks repeated while the first is under way; the sweep writes what it read | a payment is credited once and never lost; what is paid does not lapse, what is not does |
| modules (`module_service`, `platform_service`, `expiration_service`; the gates in `deps.py` and `subscription_client` of its consumers) | activation records; cached answers in the consumers' Redis | activate, deactivate, toggle, bootstrap, onboard, lapse; ask, cache, decide | a key is deleted before the commit it belongs to; failures are cached as refusals | decisions rest on what was true a short while ago; the caches agree with the records in the end |
| users | accounts, roles, TOTP, recovery codes | login, verify | a recovery code used twice | a code is spent once |
| media, ai, gateway, client | files, cached answers, routes, screens | — | — | — |

`compliance-service`, which the top README names, is not in this repository.

## The modules and the plan

In the order they were written:

| module | what it is | proofs in |
|---|---|---|
| `StockLevel` | the ledger every other part of inventory writes to | `StockLevelProofs` |
| `CustodyChain` | tamper-evident custody, the reason the platform exists | `CustodyChainProofs` |
| `InvoiceNumbering`, `InvoiceBook` | legal numbering, and the abstract book it implements | `InvoiceNumberingProofs` |
| `SalesOrder` | a status machine over reservations | `SalesOrderProofs` |
| `Anchoring` | queue, worker, sweeps, circuit breaker, minting | `AnchoringProofs` |
| `Billing`, `BillingPromises` | webhooks, invoices, expiration | `InvoiceNumberingProofs` (as `B`) |
| `Purchasing` | purchase orders and their consolidation | `PurchasingProofs` |
| `Production`, `ProductionPromises` | production runs and disassembly | `PurchasingProofs` (as `P`) |
| `Warehouse` | transfers, movement orders, cycle counts | `WarehouseProofs` |
| `Costing` | cost layers and averages over the levels | `CostingProofs` |
| `ModuleGate`, `ModulePromises` | activation of modules and the gates that cache it | `InvoiceNumberingProofs` (as `G`) |

`BillingPromises`, `ProductionPromises` and `ModulePromises` hold the state that the
outside of a component can tell and the properties of it; the component extends its
promises and adds locks, sessions and actions.

The proofs are kept to eight modules. Those of `Billing`, `ModuleGate` and
`Production` are in the module of a neighbour, which extends their promises and has
the component itself as a named instance: `B!Spec => []CreditedOnce` says that every
behaviour of `Billing` keeps the promise `CreditedOnce`. What a component assumes of its
constants is there a hypothesis of each theorem (`ASSUME B!BillingAssumption`), and an
`ASSUME` of the component itself, which TLC evaluates in the component's run.

Each `MC...` module gives the constants of one of them values for TLC. The modules
of inventory meet at `stock_levels`; each has the level in the detail its own
properties need (`StockLevel` all of a level's attributes and statements,
`SalesOrder` and `Production` the reservation, `Warehouse` places and transit, `Costing`
the average) and says in its header what it leaves to which other.

What is left of the plan: the abstract append-only chain implemented by
`CustodyChain` without unlocked notes; the abstract order implemented by
`SalesOrder` for orders whose requests do not overlap; recovery codes of
`user-service`.

## The database, as all the modules see it

A step of a model is one database round trip, as long as no other transaction
can tell the difference; Python between two awaits runs with the statement
before or after it. PostgreSQL is at READ COMMITTED: a row has a committed
version and at most one uncommitted version, owned by the holder of its row
lock; `SELECT ... FOR UPDATE`, `UPDATE` and `DELETE` wait for that lock and then
look at the row again. SQLAlchemy's identity map matters: an object a handler
still refers to is *not* refreshed when a later query returns the same row (no
query here uses `populate_existing`), so attributes may be older than the row
just locked; `db.refresh` does read it anew. These parts are external and mapped
as such.

A request may end at any step by rollback: an exception in a part that is not
modelled, a client that goes away, a process that dies. A rollback leaves no
trace, which is what PostgreSQL does on a crash too.

## StockLevel

Models the rows of one product in one warehouse, one per batch and one without
batch (`Slots`). `rows` is the committed table, `work` its newest versions, `lock`
the row locks, `snap` the identity maps, `post` the movements a transaction has
recorded, `kardex` the net quantity of the committed movements. `booked` counts
the units whose owners (the `stock_reservations` of sales orders) still count on
them. `req` says where every request stands.

| actions | code |
|---|---|
| `ReturnRead`, `Inflow`, `InsertLevel` | `receive`, `adjust_in`, `return_stock` over `upsert_level` |
| `WithdrawRead`, `WithdrawWrite` | `issue` (with a batch, or FIFO), `adjust_out`, `waste` |
| `DispatchRead`, `DispatchList`, `DispatchTake`, `DispatchEnd` | `issue` by FEFO or LIFO: `_dispatch_multi_batch` |
| `AdjustRead`, `SetQtyRead`, `SetQty` | `adjust` over `set_qty` |
| `QcRead`, `QcWrite` | `qc_approve`, `qc_reject` |
| `Reserve`, `ReserveList`, `ReserveWalk`, `ReserveEnd` | `StockRepository.reserve` |
| `Release` | `release_reservation` |
| `Commit`, `Rollback`, `Abort`, `DeadlockVictim` | `get_db`; PostgreSQL |

Left out: variants, units of measure, audit and reorder checks; transfers and
locations are in `Warehouse`, costs in `Costing`. A movement counts for the level it
was made for, whether or not the code writes the batch into the movement. A
release is of a reservation that stands, each once (the sales order's lock is in
`SalesOrder`). The clamping `max(0, ...)` of `upsert_level` is kept although no
reachable state of the runs needs it. `deliver` calls `upsert_level` itself, outside
this module, when an `issue` has failed after its deduction: level and kardex part
there too, see `SalesOrder`.

A row that is deleted at zero and inserted again is the same slot of the model,
and so is its lock.

`outrun` and `spoiled` are history. A request that has read a row before it locks
it is outrun there when another one commits the row in between (`ReadBy`); `spoiled`
are the rows such a request has then written. They say exactly when the ledger
can go wrong: `SELECT ... FOR UPDATE` in `upsert_level` finds the row and leaves the
session's older object as it was. `set_qty` goes one worse and has its own
disjunct (`SetQty`): it locks the row, but the delta `adjust` records is computed
from what it read first.

Runs:

* `stock_mixed`: all operations, two request slots, three operations in all, two
  batches and the row without one, FEFO and LIFO orders, receipts in quarantine;
  every operation may overlap every other. Two requests and two batches are the
  least at which a deadlock happens; three rows the least at which a dispatch or a
  reservation goes on after one it could not use; three operations the least at
  which one operation finds what a race of two others has left.
  * `KardexPartsOnlyWhenOutrun`: level and kardex agree on every row that is not
    spoiled, whatever overlaps.
  * `ReservationsBacked`: while no row is spoiled, what the owners of reservations
    count on is reserved on the rows. (It may be more: see `ReservationsReleased`
    under *Where code and comments disagree*, and units that a reservation which
    ran out half way would leave behind.)
  * `ReserveCovered`, `QuarantineHolds`: a reservation under way fits the rows it has
    locked; an issue takes nothing out of a row in quarantine, unless the row
    changed between the issue's read and its lock.
  * `Served`: every request is answered, deadlocks included.
* `stock_lost_update`: what a comment promises and the code does not do; see
  *Where code and comments disagree*.

`KardexMatches`, without the exception, fails as soon as an operation of
`PreReadKinds` runs beside another one.

## CustodyChain

One asset. `asset` is its row, `events` the committed events, `lock` the row lock,
`active` the allowlist of wallets, and `req` every request with what it has read.
`Handoff` ... `RecordEvent` are the endpoints; `AssertWallet`, `LoadAsset`,
`AssertCustodian` and `CreateEvent` the statements of their handlers in the order
of the code: a handoff checks the receiving wallet after the custodian's, the
generic endpoint before it loads the asset. `Locks` is `needs_lock`. `Targets` is what
`find_transition_for_event` may find in the tenant's workflow, transitions of no
event type (which it falls back to) included; the choice of QC result and of one
among several transitions is left open. Only a `MOVE_TO_<state>` for which it finds
none goes to the state it names.

The event's hash is unique, so the request's name stands for it. Insert, update
and commit are one step: nobody can see the event before. `update_after_event` is
an `UPDATE` without `FOR UPDATE` before it, hence even an unlocked note waits for
the row (`lock \in {r, NoReq}`).

Run `custody_mixed` has three requests of any type (an unlocked note, a flagged
informational type, a custom type, the six typed ones, `MOVE_TO_<state>`), two
wallets that may be revoked at any time and a workflow with two terminal states.
Two requests suffice for every conflict of two writers, the third for a note that
falls between two of them. `NotesChangeNothing` is listed under *Where code and
comments disagree*.

`LockedLinked` says more than mutual exclusion: an unlocked note may write between
a locked reader's commit and another's load, and the locked ones must still
extend what is there. That is what TLC confirms and TLAPS proves.

`TerminalSealed` looks at every pair of events, however far apart: after one that
reached a terminal state only informational ones follow. There is one way around
it, which the property names (`Overtaken`): a note that had loaded the asset before
writes the older state back, under no lock, and the next event finds the asset
open again. Without that exception TLC gives burn, note, handoff.

Whether the
chain as a whole is linear depends on the notes: `ChainWithoutNotes` proves it
when none is unlocked.

## InvoiceNumbering and InvoiceBook

`current` is the committed counter of each resolution, `lock` its row, `active` the
one the partial unique index allows. A request looks the resolution up (`Route`),
looks it up again and tests it (`ReadResolution`), heals a counter below its range
(`SelfHeal`), raises it (`Increment`) and commits when the provider has accepted
the document (`Commit`); any failure is `Rollback`. `Loaded` is the identity map: the
second look-up sees the counter of the first. An error of `get_next_number` is
swallowed by the router, so the document goes out without a number. The document
keeps the prefix and range of the first look-up (`routed`, `bears`) and gets its number
from the second (`res`); `outdated` is history, the requests between whose look-ups the
active resolution was replaced or deactivated.

`InvoiceBook` is what numbering promises: a series is a book whose next page is
given to one document at a time, until the last. `BookSpec` maps the initialised
resolutions (counter at `range_from - 1` or above) to series, the committed
counter to the page and the committed documents to what was issued; every step
of a request but `Commit` is a stutter. A gap, a second use and a number past the
range would each be a step the book does not allow.

Run `numbering_ranges`: three requests on ranges of two numbers (the third finds
the range exhausted), over a resolution that is initialised, one seeded at zero
as migration 003 leaves it, and one that has expired, created, replaced and
deactivated at any time. It checks `InRange` for all of them, healed ones
included, and `BookSpec`. `InRange` has two parts: a number lies in the range of the
resolution it is counted in, always; and in the range its document names, unless
the request is `outdated`. Without that exception TLC finds a document that bears the
range of the resolution before and a number of the one after (`internal.py:63`, `:68`).
The provider's acceptance and the commit are one step. A process that dies between
the two, or an answer that is lost, is not modelled: the number would be used
again, since the rollback frees it.

## SalesOrder

Orders of one line, their reservations and the one level they reserve from.
`orders`, `resv`, `level`, `sold` and `restocked` are the committed tables (the last two
stand for the sale and return movements of each order), `doubled` what a delivery took
from the level a second time and no movement tells, `orderLock` and `levelLock` the
row locks, `work` the newest version of the level, `req` every request with the order
as it loaded it (`seen`) and as it has assigned it since (`to`). `raced` is a history
variable: the kinds of the requests that overlapped another one of the same order.

| actions | code |
|---|---|
| `Read` | the router's `svc.get`, and the tests of the status it will pass |
| `LoadLocked` | `SELECT ... FOR UPDATE` of confirm, deliver, cancel; the flush of `approved_by` |
| `RequestApproval`, `Analyze`, `Reserve` | `request_approval`; `analyze_and_split`, `create_backorder`; `reserve_for_so` |
| `Simple` | `reject`, `resubmit`, `delete` |
| `Pick`, `Ship` | `start_picking` over `stock_check`; `ship` |
| `SelectActive`, `Release` | `consume_for_so`, `release_for_so` |
| `Issue`, `Restock` | the deduction of `deliver`, the receipt of `return_order` |
| `Commit`, `Rollback`, `Abort`, `DeadlockVictim` | `set_status` and `get_db`; PostgreSQL |
| `Receive` | stock coming in from elsewhere |

What matters most is what is *not* re-read. Every endpoint loads the order before
it calls the method and keeps the object, so the method's own locked `SELECT` finds
the row but leaves the attributes as they were: the status each method tests is
the one loaded first. All those tests are therefore in `Read`, and a request that
would fail them is left out, since it changes nothing. The `UPDATE` at the end
carries the attributes that differ from what was loaded (`Updated`).

The other thing is the fallback of `deliver` (`sales_order_service.py:745`). `issue`
deducts and flushes before it calls the costing engine; when that raises, `deliver`
deducts once more, as far as the level goes, and records one movement. `Issue` leaves
open whether that happens (`again`): layers are in `Costing`.

Abstractions: one product, one warehouse, one line per order; several statements
of one flush and the commit are one step, `Commit`, because only the last can
wait; `Issue` is one step because the release before it holds the level's row
(`StockLevel` models the other case); an order's number is `<<n>>` and its k-th
backorder's `<<n, k>>`, the form `create_backorder` gives them; a request whose
backorder would need a number outside `Numbers` fails, as one whose number is
taken does. Left out: creation and editing of lines, discounts, changes of
warehouse, negative shipped quantities, electronic invoicing; and the errors of
`create_backorder` that `ship` swallows (`sales_order_service.py:651`), of which the one
that can occur here, a number that is taken, has failed the transaction anyway.

Run `orders_mixed`: every endpoint, two requests at a time, four in all, over a draft
of two units and an order already shipped, on a level of two units that
may grow to three. A partial confirmation, a partial shipment and a shipment of
more than was ordered all occur, as do the deadlock of a delivery with a return
and every pair of overlapping endpoints.

* `LevelMatches`: `qty_reserved` is the sum of the active reservations, unless a return
  or a deletion overlapped: those take no lock, and release or drop reservations
  another request counts on.
* `ReservationsFollowStatus`, `SoldAsShipped`, `NothingDropped` speak of orders whose own
  requests never overlapped, while those of other orders do what they like.
  `NothingDropped` leaves out the shipment of a backorder: the code makes no second
  backorder and the rest is lost, although the comment at
  `sales_order_service.py:624` sets out to prevent that.
* `OneDeliveryDeducts` counts what left the level, movements or not: one delivery at most
  takes anything, and at most twice what it sells. It needs only that no
  confirmation overlapped: deliveries, shipments, cancellations and returns may.
  `SoldAsShipped` counts movements alone.

`ShippedReserved` and `ReturnsSold` are listed under *Where code and comments disagree*.

## Anchoring

`Items` are custody events, anchor requests of other services (`Hashes`) and assets to
be minted. `row` is what the database says of each, `job` the state of its job id in
the queue (ARQ keeps an id while its job is queued, in progress or has a kept
result), `loose` the jobs a request enqueued without an id, `task` what each worker
slot and each minting handler is doing, `breaker` the circuit breaker of the Solana
client, `sweep` what a sweep has listed and not enqueued yet.

| actions | code |
|---|---|
| `CheckSource`, `Create`, `Enqueue`, `EnqueueFails`, `MintInline` | the endpoints: `submit_anchor`, the custody handlers, `mint_asset` |
| `ByHand` | `trigger_anchor`, `remint_asset`, the requests' own retries |
| `SweepAnchors`, `SweepMints`, `SweepEnqueue` | the two cron jobs |
| `Pick` | `anchor_event`, `anchor_generic`, `retry_blockchain_mint` up to the call |
| `Admit`, `Accepted`, `Raised` | `CircuitBreaker.call` around `send_memo`; `mint_cnft` |
| `RecordSuccess`, `RecordFailure` | the commit afterwards; the counting of attempts |
| `Crash`, `WorkerDies` | one job or handler ends without an answer; the worker's process does, with all its jobs, its sweep and the state of its breaker |
| `Fault` | these, Redis refuses, a result expires |

The chain is known by what its caller learns: a transaction may be accepted and
the call still end in an error, and the worker may die between the answer and
the commit. `unrecorded` counts both, and the properties allow exactly that many
repetitions.

Run `anchoring_mixed` (two events, or a request, or two assets of which one has no
tree; two worker slots and a handler; two attempts, two failures and one fault):

* `EventSentOnce`: the shared job id keeps handlers, sweeps, triggers by hand and
  redelivered jobs from sending an event twice.
* `AssetMintedOnce`: the sweep does not take an asset whose mint is still under way
  in the request that asked for it.
* `BreakerCounts`: the breaker's state and counter agree although calls admitted
  under one state end under another.
* `NeverForgotten`: what was committed is anchored in the end, unless its attempts
  are used up, its tenant has no tree, or rows nothing will clear fill the window
  the sweep reads. `Window` is 1 for the run, so that this happens.

Assumed: the sweep takes an asset only five minutes after its creation, which the
model reads as "the handler that created it has ended" (`Unminted`); a mint that
takes longer than that would be repeated. A provider that answers without an asset
id leaves the placeholder (`MarkMinted`), which is harmless, since the status is
tested too.

Left out: the simulated mode, the callback to the requesting service, and the
branches that look for a signature stored without `anchored`: the two are only
ever committed together, so no row has one without the other. A mint that fails
on a remint turns a confirmed asset into a failed one, as in the code.

## Billing

One tenant's subscription (`sub`) and its invoices (`inv`), the marks in Redis (`marks`)
and the ledger of unmatched payments. A session is a webhook, a request of an
administrator or one pass of the expiration loop; rows are read without locks and
written later, each column only if it was assigned another value than the one
read. `credits`, `voids`, `byHand`, `answered`, `interrupted` and `unmarked` are history.

| actions | code |
|---|---|
| `Deliver`, `Dedup`, `DedupFails`, `MarkExpires` | the gateway; `SET NX` with a time to live |
| `Find`, `RecordFails`, `WriteInvoice`, `LoadSub`, `WriteSub` | `process_successful_payment`: match or put in the ledger (which may fail and say nothing), pay, extend |
| `Ask`, `AskInvoice`, `Generate` | cancel, reactivate, upgrade; mark paid, void with credit note; new invoices |
| `SweepBegin`, `SelectDue`, `SelectBeyond`, `SelectForced`, `WriteLapse` | `expiration_service` |
| `Commit`, `Fail`, `Tick` | the end of a session, a failure, the passing of days |

Run `billing_mixed` has two payments of one invoice, delivered up to twice each, a
sweeper and one request of an administrator, one fault and three days:

* `CreditedOnce`: however often the gateway repeats itself, also while the first
  delivery is being processed; once more only after a refund or while Redis was
  down.
* `NoPaymentLost`: what the gateway was told is settled has been credited or is in
  the ledger of unmatched payments. Excepted are payments a session of which
  failed (the mark, set before the work, hides the gateway's repetition), those the
  ledger refused (`record` swallows every exception, and the webhook answers 200
  whatever it returned), and invoices paid another way.
* `NotLapsedEarly`: a period that has not ended lapses only if the sessions that
  wrote it overlapped. (A sweep that overlaps a payment does undo it.)
* `LapsesInTheEnd`: the three selections of the sweep together leave no
  subscription running past its grace period, however many passes failed.

A delivery is assumed to end within the ten minutes its mark lives unless it fails:
`MarkExpires` is for deliveries that are over.

Observed while modelling and left as they are: a payment sets the period to
thirty days from now for annual plans too; `trialing` is never set; dunning selects
invoices by a due date that no code sets; forced expiry does not deactivate
modules although the docstring of the sweep says so; partial refunds are not
summed; a void invoice can be paid again; `checkout.create_checkout` refers to a
name that is not defined (`checkout.py:153`).

## Purchasing

`po` are the orders as committed, with what they order, have received and stand for
(`demand`: the drafts whose needs they carry, or carried, when they were deleted), `stock` what came in with each order's
number. Only `receive_items` locks the order, and its lock is the first read (the
router loads nothing before it), so what it tests is what is there; every other request reads, tests, and writes in a later
statement that waits and tests nothing again. `overwritten` are the orders written
by a request for which the status had changed.

| actions | code |
|---|---|
| `Load`, `Write`, `Commit` | submit, approve, reject, send, confirm, cancel, edit, delete |
| `Receive`, `ReceiveCommit` | `receive_items` |
| `Consolidate`, `Deconsolidate`, `LoadOriginals`, `WriteChild` | `po_consolidation_service` |
| `Create` | a new draft |
| `Victim`, `Fail` | PostgreSQL; a session that fails |

A flush updates its rows in the order of their keys (`NextRow`), which is why only
the rows `ON DELETE SET NULL` reaches can close a circle of waits.

Run `purchasing_mixed`: two drafts and their combination, two sessions, five mixes of
kinds. `ReceivedMatches` (receipts and stock agree and never exceed the order),
`SuppliedOnce` (two orders that stand for one draft do not both receive),
`DeadlockNeedsDelete`, `SettledStays`. What the code does not prevent, and the
properties except by name: a late write over a settled order, and with it a
second revert of a consolidation (`deconsolidate` does not test its originals'
status), which turns a canceled original into a draft again. The proof of
`SettledStays` found that case before TLC had a mix in which it could happen. The
exceptions are what `cancel`, `update` and the approvals can really do when they
overlap a receipt or a consolidation; no property covers those.

The proof of `SuppliedOnce` found another. A combined order that was overwritten,
combined again, brought back to draft by a late rejection and then deleted was
the only witness of what its drafts had been ordered for: with seven orders, out
of reach of any run, two orders could then both receive for one draft while
nothing in the state said so. Deleted orders therefore keep their `demand`, which
is history and no column: the property means what it says however long the
orders' past is, and the exception (`overwritten`) covers that case by name.

Approval is optional in the code (`requires_approval` is never called, drafts can be
received), so it is optional here; canceling or deleting a combined draft leaves
its originals consolidated; consolidation sums what was ordered, whatever was
received.

## Production

`run` holds each run with the quantities of its recipe and the totals of its
emissions and receipts, `level` the level of each product and warehouse, `moved` the net
quantity of the movements. A run takes one product and yields one, each in a
warehouse of its own; its documents may name another. Multipliers have no lower bound in
`ProductionRunUpdate`, and a recipe may change at any time, so both may here. A
disassembly is a run of its own kind. No request locks its run. `lost` and `excess` are
history: what was written from outdated reads, moved by a run of no or negative
quantities, or released before its recipe changed; and levels whose reservations an
emission missed, because it took more than the run had left to take or was the
first and from another warehouse.

| actions | code |
|---|---|
| `Create`, `Edit`, `Delete`, `Cancel`, `Close` | the run's own endpoints |
| `UpdateRecipe` | `update_recipe` |
| `Release`, `Reserve`, `Unreserve` | `release_run` and the reservation over `StockRepository` |
| `Emit`, `ReadStock`, `TakeStock` | `create_emission` and its disassembly |
| `Receive`, `GiveStock` | `create_receipt` and its disassembly |
| `WriteRun`, `Commit`, `Fail` | the update at the end, `get_db` |

Run `production_mixed` (a run and a disassembly of one material, of which there is
some in a second warehouse; two sessions, six mixes, of which one has every kind
and one request at a time):

* `LedgerMatches`: levels follow the movements, unless an emission wrote over a
  change it had not read, or a run of no or negative quantities moved its stock.
* `ReservationsFollowRuns`: what is reserved is what the runs hold: what a run needs
  until its first emission, and *for ever* afterwards what that emission did not
  take, because only the first emission gives back (`Held`). A completed or closed
  run keeps it too. The property says that no run takes another's reservation and
  no canceled one leaves any. A first emission from another warehouse does both,
  with no overlap: it releases there what others have reserved and leaves the run's
  own; TLC finds that as soon as the exception (`excess`) is dropped.
* `YieldsAsPlanned`: no run yields more than planned, in however many receipts,
  unless they overlapped or the recipe changed.

Left out: resources, costs, variances, document numbers (a count plus one), changes
of a run's output warehouse, and
secondary outputs, which the code receives in full at every receipt
(`production_service.py:624`).

## Warehouse

A place is a warehouse or a bin with one row of the product. `level` are the rows,
`ledger` the net quantity of the movements on record, `physical` what is really there
(goods can disappear: `Shrink`), `transfer`, `line` and `count` the documents. `lost` are
places written from what had changed since it was read.

| actions | code |
|---|---|
| `BeginTransfer`, `Take`, `Put` | `transfer` |
| `BeginArrive`, `ReadDest`, `WriteDest` | `initiate_transfer`, `complete_transfer` |
| `BeginRelocate`, `BeginConfirm`, `Pick` | relocation; `confirm_line` of a movement order |
| `BeginCreate`, `BeginStatus`, `BeginRecord`, `BeginApprove`, `Value` | the cycle count, its accuracy snapshot and its adjustment |
| `Sell`, `Receive`, `Shrink` | what others do meanwhile |

Run `warehouse_mixed` (two places, movements both ways, one count, two sessions, seven
mixes):

* `LedgerBalances`: places hold what the movements on record made of them.
* `CountAppliedOnce`: two approvals both pass the test of the status; the unique key
  of `ira_snapshots` alone stops the second.
* `CountsCorrect`: the approval removes the error found at the count and leaves
  later movements alone. Movements *between snapshot and count* are undone by it:
  the comment says the system quantity is the one "at count time"
  (`cycle_count_service.py:148`), the code stores it when the count is created.

Overlapping `confirm_line` calls move the goods twice (the line's status is read
without a lock), and a level deleted at zero loses what is in transit to it; both
are in the model and excepted through `lost` and the ledger. Routers pass no batch
to transfers, so there is none. `approve` ignores an item's batch; `get_level`
without a location fails once a product lies in two bins: such requests change
nothing and are left out.

## Costing

The levels of one product in one warehouse (`Rows`: one without batch, one per
batch), and the layers under them, which all levels share. A layer is named by
when its transaction began, since `created_at` is `now()`; the oldest is charged
first. What a unit costs is left out: an average is *the quantities left in the
layers it was computed from* (`avg`), which is what can be out of date, or `Blended`,
what `upsert_level` makes of a level's average and the cost of what comes in.

| actions | code |
|---|---|
| `ReadLevel`, `Upsert`, `Insert`, `SetQty` | `stock_service` over `upsert_level` and `set_qty` |
| `CreateLayer` | `create_layer` |
| `DeductAgain` | the fallback of `deliver` after a costing that failed |
| `SelectLayers`, `ConsumeLayers` | `consume_fifo`: the layers there are when the query begins, then their locks |
| `ReadAverage`, `ListRows`, `UpdateRow` | `get_weighted_average_cost`; the `UPDATE` of every level of the product |
| `Commit`, `Fail`, `Victim` | `get_db`; PostgreSQL |

`After` is the order of the statements in each operation: receipts and returns make
a layer, issues and downward adjustments charge some, production does so without
the engine, and losses, `adjust_out` and additions at no cost leave the layers
alone (`unit_cost` may be absent, or zero, in which case `upsert_level` still averages
it in: `Priced`). A delivery that finds too few layers by the strict method keeps what
it charged and goes on without the engine (`Raised`).

Run `costing_mixed` (two sessions, four requests, two levels, both valuation
methods, five mixes):

* `LayersMatch`: what is left in a layer plus what was charged to it is what came in
  with it. Issues of different batches hold different levels, so only the locks on
  the layers keep this.
* `AveragesMatch`: an operation of the engine that nobody overlapped leaves the true
  average on every level, until production, a failed costing or units at no cost
  pass the engine by, or two operations overlap (`suspect` is the history variable for
  these).
* `DeadlockNeedsTwoLevels`: sessions on one level wait for each other and never in a
  circle; sessions on two levels can, through the `UPDATE` of every level, and so can
  one whose level was deleted after it was read.

What the model shows besides (*Where code and comments disagree* has the comments): layers and levels do
not sum to the same; a weighted issue that finds too little keeps what it charged
and goes on; a FIFO issue may be refused although a layer committed while it
waited would have sufficed; an older layer may become visible after a younger one
has been charged. `upsert_level`'s own formula for the average is overwritten by the
engine in the same transaction, except where units come in at a cost of zero: there
the engine is not called (`stock_service.py:611`, `:709`) and one level keeps it.

## ModuleGate

Which modules a tenant may use. `row` are the activation records as committed, `lock`
their row locks (or the unique key of a record being inserted), `sub` and `period` the
subscription the sweep looks at, `desk` the sessions of `subscription-service`, `cache`
the answers the consumers keep in Redis, `gate` the requests at their gates.
`sinceOn`, `sinceOff` and `sinceFailed` tell how long ago a module was last on, last
off, and last could not be asked for; `disturbed` are the modules whose last change a
gate may have outrun.

| actions | code |
|---|---|
| `Ask`, `Bootstrap`, `Onboard`, `Lapse` | the endpoints of `routers/modules`, `onboard_tenant`, `check_expirations` |
| `Read`, `Write`, `Skip`, `Duplicate`, `Victim` | `ModuleRepository.activate`, `deactivate`; `toggle_tenant_module`; PostgreSQL |
| `Drop`, `DropFails`, `Commit` | `_invalidate_module_cache`, and then the commit of `get_db` |
| `Arrive`, `Hit`, `Miss`, `Answered`, `Failed`, `Unanswered`, `Set`, `RedisFails` | the gates of `inventory-service` and `trace-service` |
| `Tick`, `Elapse` | a cached answer ages; the subscription's period ends |

Run `modules_mixed` (two sessions, two gates, answers kept two ticks, one tick from
question to answer, two changes, one fault, seven mixes of kinds):

* `StaleOnlyWhenOutrun`: a cached answer differs from the record only if a gate asked
  between the deletion of the key and the commit, or the key was not deleted.
* `DecidedOnRecentState`: a request passes only if each of its modules was on at most
  a time to live (and its own delay) ago, and is refused only if one was off or could
  not be asked for as recently: stale answers do not feed on themselves.
* `AnsweredAsCommitted`: what activation, deactivation and bootstrap answer is what
  their commit leaves, whoever changed the record since they read it.
* `FreshInTheEnd`: caches and records agree in the end.

Seen while modelling: `toggle_tenant_module` answers what it was asked even if an
outdated read made its `UPDATE` empty; a payment after the expiry does not switch
the modules on again; an answer of 403 or 500 is cached by `inventory-service` as
"off", by `trace-service` not at all.

## Where code and comments disagree

`stock_lost_update` is a run that TLC must find violated: "the lock prevents
concurrent writers from causing lost updates" (`stock_repo.py:203`). The lock is
taken, but the quantity is computed from the object `issue` loaded before it.

The others are stated as properties that no run lists, because the code does not
keep them. Put in place of the properties of the configuration named, TLC gives
the behaviour:

| property | configuration | what is promised, and what happens |
|---|---|---|
| `ReservationsReleased` | `StockMixed.cfg` | "cancel ... qty_reserved -= qty" (`reservation_service.py:6`). A reservation that fell through to batches is released against the level without batch, where the guarded `UPDATE` matches no row. |
| `NotesChangeNothing` | `CustodyMixed.cfg` | "Informational events: do NOT change asset state" (`domain/types.py:71`). A note writes back the state and custodian it read. |
| `NumbersUnique` | `NumberingRanges.cfg` | "Atomically increment and return the next invoice number" (`resolution_service.py:44`). Two requests heal one seeded counter. |
| `ShippedReserved` | `OrdersMixed.cfg` | "SELECT FOR UPDATE so cancel + deliver/ship don't race on reservations" (`sales_order_service.py:1221`). Ship takes no lock, and cancel tests a status older than its own. |
| `ReturnsSold` | `OrdersMixed.cfg` | "physical deduction happens at deliver()" (`sales_order_service.py:568`). A shipped order can be returned undelivered, with no concurrency at all; and two returns restock twice. |
| `EventuallyAnchored` | `AnchoringMixed.cfg` | "the sweeper + worker retries guarantee eventual anchoring" (`anchor_service.py`). The sweep gives an event up after `ANCHOR_MAX_RETRIES`. |
| `RequestSentOnce` | `AnchoringMixed.cfg` | "Verify before re-sending to avoid double-spending fees on Solana" (`worker_main.py`). Jobs of requests carry no job id while the sweep's do, and two submissions of one source both find none. |
| `TakesEffectAtOnce` | `ModulesMixed.cfg` | "so the change takes effect immediately instead of waiting for the TTL to expire" (`module_service.py:100`). The key is deleted before the commit; a gate that asks in between caches the old answer for another time to live. |
| `ExpiredHasNoModules` | `ModulesMixed.cfg` | "Deactivate modules for expired tenants" (`expiration_service.py:6`). The third selection expires a subscription nobody saw in its grace period and leaves its modules on. |
| `EveryPaymentAccounted` | `BillingMixed.cfg` | "Idempotency: already paid with same gateway_tx_id" (`webhooks.py:101`). Only the invoice's status is tested: the second of two payments is answered and is in no ledger. |

Read from the models without a property of their own:

* "two concurrent confirms can't both pass the status check and double-reserve
  stock" (`sales_order_service.py:418`): they can, for the same reason as the first.
* "Fallback: simple deduction without costing" (`sales_order_service.py:746`): the
  issue that failed has deducted already, so it is a second deduction, with one
  movement for both. `doubled` of `SalesOrder` counts it.
* "Called on EVERY stock entry" and "EVERY stock exit" (`costing_engine.py:32`, `:56`):
  production makes and charges layers without the engine, so no average is
  refreshed (`production_service.py:312`, `:575`); waste, `adjust_out`, dispatch over
  several batches and transfers leave the layers alone.
* "sum(layer.quantity_remaining) always equals StockLevel.qty_on_hand"
  (`costing_engine.py:91`): hence it does not.

## Fairness

Only steps of the code itself are fair, weakly: a statement that can run returns,
and the handler goes on. Nothing obliges requests to arrive or fail, wallets to
change or administrators to act.

* `StockLevel`, `SalesOrder`: `Step(r)` of each request. The
  deadlock detector is fair, as PostgreSQL's `deadlock_timeout` makes it; without it
  the liveness property fails. Weak fairness suffices although requests wait for
  locks, because each request runs a bounded number of times and every holder
  ends.
* `Anchoring`: running tasks go on, requests in progress go on, the sweeps start (they
  are cron jobs) and enqueue what they have listed, the worker picks each queued
  job, and each kept result expires. Failures and crashes are bounded, never fair.
* `Billing`: open sessions go on, and the hourly loop of each process starts again. Days
  pass or not.
* `ModuleGate`: open sessions and gates in progress go on, and time passes. Nobody has
  to change or to ask for anything.
* `CustodyChain`, `InvoiceNumbering`, `Purchasing`, `Production`, `Warehouse` and `Costing` are checked for safety
  only: nothing in the code obliges their requests to be made.

## Bounds

| run | bounds | size |
|---|---|---|
| `stock_mixed` | 2 slots, 3 operations in all, 3 rows, level at most 2 | 0.5 million states |
| `custody_mixed` | 3 requests, 2 wallets, branching workflow | 1.7 million |
| `numbering_ranges` | 3 requests, 3 resolutions of 2 numbers | 0.6 million |
| `orders_mixed` | 2 requests at a time, 4 in all, 2 orders and their backorders | 0.2 million |
| `anchoring_mixed` | 2 items of a kind, 2 slots, 1 handler, 2 attempts, 2 failures, 1 fault | 0.7 million |
| `billing_mixed` | 2 transactions, 2 deliveries each, 1 sweeper, 1 request, 1 fault, 3 days | 0.4 million |
| `purchasing_mixed` | 2 drafts, 1 combination, 2 sessions | 0.5 million |
| `production_mixed` | 2 runs, multipliers -1, 0, 1 and 2, one other recipe, at most 2 units in an emission and in all, 3 levels, 2 sessions | 1.2 million |
| `warehouse_mixed` | 2 places, 2 transfers, 2 lines, 1 count, 2 sessions | 1.1 million |
| `costing_mixed` | 2 sessions, 4 requests of one unit, 2 levels, 5 layers | 2.2 million |
| `modules_mixed` | 2 sessions, 2 gates, 2 changes, 1 fault, answers kept 2 ticks | 0.75 million |

Two sessions suffice for every lost update, race of two requests and circle of
two locks; `CustodyChain` has three, for what falls between two. Quantities of two distinguish all, part and none of a row. `Mixes` is the
device that makes the larger modules checkable: the kinds that occur together
are chosen at the start, in sets that put next to each other what touches the
same columns; every kind is in at least one set, and the theorems have no such
bound. Sets of sessions or requests are symmetric where no property is a liveness
property.

## What is proved

For every value of the constants that satisfies the modules' assumptions (names
distinct, functions of the right type, some sets finite; nothing about sizes):

| theorem | says | by way of |
|---|---|---|
| `StockLevelProofs!TypeCorrect` | `TypeOK`: no quantity becomes negative | `TypeInv`: types, and that a listed row's quantity is what a session saw |
| `StockLevelProofs!KardexAgrees` | `KardexPartsOnlyWhenOutrun`: all operations, any overlap | `LedgerInv`, below |
| `StockLevelProofs!ReservationsKept` | `ReservationsBacked` | `LedgerInv`: what is reserved on the newest versions exceeds what is committed by what the sessions under way have taken |
| `StockLevelProofs!ReservationsFit` | `ReserveCovered` | `LedgerInv`: a reservation writes only rows that are visible, locked and large enough |
| `StockLevelProofs!QuarantineRespected` | `QuarantineHolds` | `LedgerInv`: what an issue saw of a row it holds and was not outrun on is what is committed |
| `CustodyChainProofs!TypeCorrect` | `TypeOK` | `SpineInv`: the last event is the asset's head |
| `CustodyChainProofs!LockedEventsLinked` | `LockedLinked` | `LockInv`: what the holder read is the row; `OnceInv`: a request writes at most one event |
| `CustodyChainProofs!NoLockedFork` | locked events never fork | from the above and `OnceInv` |
| `CustodyChainProofs!ChainWithoutNotes` | one chain, if `Informational \subseteq Flagged` | `ChainInv` |
| `CustodyChainProofs!TerminalStatesSeal` | `TerminalSealed` | `GoalInv`: the holder's goal was resolved from the current state; `OpenInv`, `ReopenInv`: an asset is in an open state after a terminal one only if a note was overtaken in between |
| `InvoiceNumberingProofs!NumbersInRange` | `InRange` | `FloorInv`: from the increment on, the counter a request will use is at least `range_from - 1`; `HoldInv`; `RouteInv`: a request that is not outdated counts where it was routed |
| `InvoiceNumberingProofs!NumbersConsecutive` | `Consecutive` | `CountInv`: numbers given and counter go together |
| `SalesOrderProofs!TypeCorrect` | `TypeOK` | `TypeInv`: types, and which endpoints reach which point of the code (`KindsAt`) |
| `SalesOrderProofs!OnlyOneDeliveryDeducts` | `OneDeliveryDeducts` | `AgainInv`: a second deduction is no more than the first, of the same delivery; `OnceInv`: what a delivery releases are all the reservations there are, since it holds the order's lock (`Taken`, `OrderHeld`); an order that has had reservations is never a draft again, not even for a request that loaded it before (`Booked`, by `Overlap`); one that has sold has none left (`SoldOut`) |
| `SalesOrderProofs!ReservedAsNeeded` | `ReservationsFollowStatus` | `SoloInv`, from `StoryInv` (what a request has assigned, by the point it has reached) and `ViewInv` (`Fresh`: a request nobody overlapped has loaded the row there is; `Keen`: what a request has selected are its order's reservations) |
| `SalesOrderProofs!SoldWhatWasShipped` | `SoldAsShipped` | `SoloInv`: a shipped order has an active reservation, so its delivery releases one and deducts |
| `SalesOrderProofs!BackordersTakeOver` | `NothingDropped` | `StoryInv`'s `Halves` (what is confirmed and what becomes a backorder add up to what was asked for) and `ViewInv`; the number of the backorder is a new one |
| `SalesOrderProofs!LevelKept` | `LevelMatches` | `LevelInv`: qty_reserved is the sum over all orders, and the holder of the level's row has written that sum with its own share of it (`Holds`); so a release always finds enough on the level |
| `InvoiceNumberingProofs!NumbersNeverRepeat` | `NumbersUnique` if every counter was initialised | from `Consecutive` |
| `InvoiceNumberingProofs!NumberingImplementsBook` | `BookSpec`: the refinement | `CountInv`, `HoldInv`: the counter a session raised is one above the committed one, whose row it holds; every other step leaves the mapped variables alone |
| `AnchoringProofs!AnchoringTyped` | `TypeOK` | `TaskInv`: what a task works on, by the point it has reached |
| `AnchoringProofs!MemoSentOnce` | `EventSentOnce` | `SentInv`: a keyed job is in one place (queued, run by one task, kept), and the memos sent, recorded and lost add up |
| `AnchoringProofs!MintedOnce` | `AssetMintedOnce` | `MintInv`: an asset whose mint is under way, in a handler or a worker, is not one the sweep or a queued job will take, and mints, records and lost outcomes add up |
| `AnchoringProofs!BreakerConsistent` | `BreakerCounts` | itself |
| `WarehouseProofs!WarehouseTyped` | `TypeOK` | types by the point a session has reached |
| `WarehouseProofs!LedgerAlwaysBalances` | `LedgerBalances` | `BalanceInv`: for every place that is not lost, committed level = ledger, and for the holder of its row, what it will write = what it read plus what it will record |
| `WarehouseProofs!CountsAlwaysCorrect` | `CountsCorrect` | `BalanceInv`'s `Corrects` (what an approval writes is the counted level as it still is, plus the discrepancy) and `FoundInv` (of a level that had not changed since the snapshot, the discrepancy is the error that was found) |
| `WarehouseProofs!CountAppliedAtMostOnce` | `CountAppliedOnce` | the session that has inserted the accuracy snapshot is the only one that will apply the count (`Place`, `Approving`, `Creating`) |
| `PurchasingProofs!PurchasingTyped` | `TypeOK` | `Amounts`, `Known`: what a session holds is of the right type, and it stands where its kind can stand |
| `PurchasingProofs!ReceivedAsRecorded` | `ReceivedMatches` | `PurchasingInv`: only the holder of an order's row adds to what it received, and its quantity is what is committed |
| `PurchasingProofs!SuppliedAtMostOnce` | `SuppliedOnce` | `Sound` (`Apart`, `Holder`, `Clean`): of the orders that stand for one draft and were never written over, at most one has received something or still may; what a combined order orders is the sum of its drafts (a sum over a finite set, `SumNat`) |
| `PurchasingProofs!DeadlocksNeedDelete` | `DeadlockNeedsDelete` | `Ascends`: a session that deletes nothing waits only for rows behind all it holds (`Greatest`) |
| `PurchasingProofs!SettledForGood` | `SettledStays` | `Shape`, `FamilyInv`, `About`: a combined order's drafts are those that point at it; what a session read is what is there, or its row has changed since |
| `CostingProofs!CostingTyped` | `TypeOK` | `Gains`: a session never gains a negative quantity |
| `CostingProofs!LayersCharged` | `LayersMatch` | `Ids`: a layer nobody has made is empty; `Holds`: what the holder of a layer's lock will write and what it charges add up to what is committed |
| `CostingProofs!AveragesKept` | `AveragesMatch` | `AverageInv`: the average of a session that is not late is what its commit would leave in the layers, and its UPDATE has written it to every level that is there, or still will (`Current`); what another statement writes into an average is overwritten or makes the averages suspect (`Keeps`) |
| `CostingProofs!DeadlocksNeedTwoLevels` | `DeadlockNeedsTwoLevels` | `LayerInv`, `AverageInv`: who waits for its level holds neither a level nor a layer |
| `PurchasingProofs!ProductionType` | `TypeOK` of `Production` | part of `RunInv`, below |
| `PurchasingProofs!ProductionLedger` | `LedgerMatches` | `RunInv`: whoever writes a level or a run holds its row (`Writes`), and what it wrote is what it read plus what it will record, unless the row has changed since |
| `PurchasingProofs!ProductionReservations` | `ReservationsFollowRuns` | `RunInv`: the status of a run goes with its totals (`RunAgrees`), and a cancellation that releases nothing cancels nothing that holds anything (`StillReleased`); a recipe's change makes the run one of the exceptions |
| `PurchasingProofs!ProductionYields` | `YieldsAsPlanned` | `RunInv`: a commit that overlapped nobody finds the run as it was read (`FoundRun`) |
| `InvoiceNumberingProofs!BillingType` | `TypeOK` of `Billing` | part of `BillInv`, below |
| `InvoiceNumberingProofs!PaymentsCreditedOnce` | `CreditedOnce` | `BillInv`: credits are counted together with those that sessions under way may still add (`CountedWith`) |
| `InvoiceNumberingProofs!PaymentsNotLost` | `NoPaymentLost` | `BillInv`: an answered payment that is neither credited nor in the ledger has an open session, or is interrupted (a session or the ledger failed), or its invoice was paid another way |
| `InvoiceNumberingProofs!LapsesNotEarly` | `NotLapsedEarly`, of every step | `BillInv`: a session that overlapped no other still sees what it read (`Fresh`) |
| `InvoiceNumberingProofs!ModuleGateType` | `TypeOK` of `ModuleGate` | part of `ModuleInv`, below |
| `InvoiceNumberingProofs!AnswersStaleOnlyWhenOutrun` | `StaleOnlyWhenOutrun` | `ModuleInv`: an answer, cached or on its way, agrees with the record unless the record's last change was outrun (`Undisturbed`); a key a session has deleted stays deleted until its commit, except where a gate has crossed it (`DeskInv`) |
| `InvoiceNumberingProofs!AnswersAreCommitted` | `AnsweredAsCommitted`, of every step | `ModuleInv`: a session still holds every record it answers for, with that answer written (`DeskInv`) |
| `InvoiceNumberingProofs!DecisionsAreRecent` | `DecidedOnRecentState`, of every step | `ModuleInv`: the age of an answer is counted from when the record said so, and neither caching nor reading it starts it anew (`Given`, `CacheInv`, `GateInv`) |

The properties themselves are not inductive: each speaks of committed state only,
and a step's effect on it depends on what its request read, wrote and still
holds. `LedgerInv` of `StockLevel` is the largest case. It has three parts. Of the
tables (`TablesInv`): an unlocked row's newest version is the committed one; a row
that is not spoiled agrees with its kardex, and its newest version differs by what
the lock's holder has recorded (`post`). Of each session: it stands where its kind can
stand, holds exactly the rows it has written, and what it saw of a row it has not
been outrun on is what is committed; so what it will write agrees with what it will
record. Of the reservations: the sum over the rows of what is reserved is at least
what is booked, counting what each session under way has taken and not yet booked.

`SalesOrder` needs the most lemmas, because what a request commits depends on the
attributes it loaded at the start. `StoryInv` says what it has assigned to them,
`ViewInv` when they are still those of the row: as long as nobody overlapped
it, or, for reservations, as long as it holds the order's lock. Only then can a commit be
computed from the committed row, which is what `SoloInv` and `LevelInv` do, order by
order and for the level as a whole.

`RunInv`, `BillInv` and `ModuleInv` carry the proofs of `Production`, `Billing` and
`ModuleGate`. All three say of a session what it has read and holds at the point it
has reached, and of the rows what follows when nobody wrote over them; they differ
in what they count. In `Billing` the invariant is about what has *not* happened
yet: the number of credits alone is no invariant, as two deliveries can both be past
the mark when Redis was down, but credits made and credits still possible together
are bounded by refunds and unmarked deliveries, and every step keeps that bound. In
`ModuleGate` it is about age: nothing says what the record is while an answer
travels, only for how long the answer can have been on its way. TLC checked each of
them as an invariant of its run before it was proved (`BillInv` on 0.4 million
states, `ModuleInv` on 0.75 million).

The proof of `ModuleGate` found two places where the model did not say what the code
does, and they are corrected: onboarding with no module to switch on goes straight
to its commit (`Listing`), and what a gate does without Redis is one case for each
service, not a choice (`RedisFails`).

The sums of `StockLevel`, `SalesOrder` and `Purchasing` are over finite sets of any size. The
induction theorems of the library take an operator as parameter and cannot be
used; the proofs state the induction they need for the fold of the community
modules itself: the set of counterexamples among the subsets of a finite set has a
least one (`Induct`, `SubsetInduct`), and a sum grows by the element that is added
(`SumPlus`, `SumSingle`, `SumZero`; `SumNat`; `SumSplit`, `SumSame`, `SumChange`).

Only model-checked:

* All liveness (`Served`, `Answered`, `NeverForgotten`, `LapsesInTheEnd`, `FreshInTheEnd`),
  which is out of the prover's reach, since it rests on fairness and `ENABLED`.

Every safety property of every passing run is proved. The modules' `TypeOK`s are in
no run: all are proved.

The theorems rest on the named assumptions of the modules alone. They take a set to
be finite where a sum, a count or a least element needs it: the batches of a product, the
primary keys of purchase orders, the numbers of sales orders, the rows of the cost tables,
production runs, and the sessions of `Billing`, all of which are rows of a table or
connections of a server.

## Not modelled

`PROJECT.json` lists every part and the reason, and under "hazards" what a test would
hardly reach, with the property that covers it or the reason there is none.

The modules cover the code in which the order of steps matters. Most of the
repository is code in which it does not: the web client (screens over the API),
schemas and migrations, catalogue and price lists, imports, reports, PDF and XML
rendering, demo data, connectors to third parties, scripts. A request there reads
or writes one record, or computes something from committed rows; a model of it
would repeat the code line by line and have nothing to check. That is why the
mapped lines are a small share of all lines although the services' state machines
are modelled.

Left out of components that are modelled: creation and editing of sales order
lines, discounts, electronic invoicing; creation and cancellation of movement
orders, putaway strategies, physical inventories; costs of purchase and production;
plans and licences; evidence documents. Recovery codes of `user-service`
are the next candidate: `verify_code` locks a user the session already holds, so
the codes it removes from are those read before the lock.
