# Matchday Store: specifications, model checking and proofs

Matchday Store is a Django shop for pickup orders: a visitor fills a cart, checks
out as a guest or with an account, the stock is reserved, staff prepare the order
and hand it over against payment, and mail tells everybody about it. This directory
specifies the parts of it in which requests, staff, background tasks and failures
meet, checks them with TLC and proves the central ones with TLAPS.

Paths below are relative to `src/`. `PROJECT.json` lists the components, the runs,
the hazards, the theorems, and for every definition the lines it models.

    tlc -config MCOrderStock.cfg MCOrderStock      # a run
    tlapm OrderStockProofs.tla                     # proofs, likewise the other *Proofs.tla

## 1. Inventory

| Component | State | Operations | Hard behaviour | Correct means |
|---|---|---|---|---|
| Stock reservation (`orders/services.py`, `store/models.py`) | `ProductVariant.quantity`, `reserved_quantity` | reserve, release, issue a variant | many orders share a variant | the reservation is the sum of what open orders hold, never above the quantity |
| Checkout (`orders/views.py`, `checkout_session_service.py`, `CheckoutService`) | session tokens, cart items, `Payment.idempotency_key`, user row and advisory locks | open form, submit, create order | duplicate and parallel submits, lost responses, worker death | one order per token, limits hold, a duplicate gets its order |
| Cancellation | order, manual payment, variant | by customer, staff, expiry task | races with issue and payment | released once, no money kept |
| Staff order flow and issue (`dashboard_order_flow.py`, `OrderIssueService`) | `Order.status`, `fulfillment_status` | new, processing, ready, issued | two columns behind five keys | final states are final, goods leave against money |
| Manual payment (`ManualPaymentUpdateService`, `payments/`) | `Payment`, its mirror on `Order` | change of payment status | after cancellation, after issue | both rows agree |
| Pickup expiry (`OrderAutoCancellationService`, Celery beat) | the batch being handled | select, cancel one by one | stale selection, crash in mid-batch | every expired order is released |
| Warehouse (`warehouse_crud.py`, dashboard views) | variants, products, categories | create, edit stock, delete | no lock between reading and saving | the stock is not overwritten, open orders keep their variants |
| Notification outbox (`order_notification_service.py`, `notification_logs.py`, `tasks.py`) | `OrderNotificationLog` rows, Celery queue | record, publish, resend, claim, send, retry | stale saves, lost answers, dead workers | status tells the truth, every notice settles |
| Carts and merge (`cart_service.py`, `cart_context.py`) | carts and items of sessions and users, row locks of carts, items, variants | add, update, remove, merge at login | two logins at once, order of row locks, a quantity summed up in Python | no unit doubled, no add lost, logins never wait in a circle |
| Guest access tokens (`GuestOrderAccessTokenService`, `tasks.py`) | `GuestOrderAccessToken`, `Order.guest_manage_token`, the payload of the "created" notice | issue by mail, reuse, rotate, expire, use, claim by an account | every mail and every retry may make a token; pages read first and act later | a mailed link lives until a rotation or its age, a rotation shuts out pages under way |
| Accounts (`users/`) | user, `email_token`, sending times, mail tasks | register, resend, confirm, edit, delete | the mail is queued before the token is saved; forms save stale rows | guest orders are shown only to who proved the address |
| Support (`support/`) | `SupportRequest.email_sent`, `email_error` | form, task with retries, admin's form | several writers of one outcome | the outcome is told, and true |
| Thumbnails (`product_image_thumbnail_service.py`, `store/signals.py`, `store/tasks.py`) | image row, files by name | receiver, task, regenerate command | copies of the row, files without transactions | the picture shown belongs to the image |
| Reservation backfill (`backfill_stock_reservations.py`) | both stock columns | one pass over all active orders, `--force` | runs beside orders, may run twice | the reservation is what active orders hold |
| Payments in the admin (`payments/signals.py`, `payments/services.py`) | `Payment` rows, `Order.payment_status` | add, change, delete; signals | locks in the other order than the services | a cancelled order stays cancelled |
| Pickup calendar (`add_business_days`, the sweep's query) | start times, deadline | deadline, cutoff, batch | weekends, settings of zero, young orders in the batch | a sweep cancels what has expired and nothing else |
| Catalog, analytics, admin's free edits, fixtures, operations | see PROJECT.json | | | |

They interact through the database: checkout, cancellation, issue and expiry lock
the same order and variant rows; the warehouse writes the variant rows without
locking them. Order changes call the outbox from `transaction.on_commit`; the outbox
hands a task id to Celery and reads the row again in the worker. Payments are
mirrored on the order by `PaymentStatusSyncService`. The content of the "created"
mail is built by whoever gets to it first, and a guest's link is issued on the way.
Support, accounts and thumbnails have their own rows and tasks; they share with the
rest only the mail server and the broker.

## 2. Modules

    OrderStock            orders, payments, reservations: one action per request
      OrderStockProofs    theorems about OrderStock: stock, money, final states, and
                          the orders that stay open
      MCOrderStock        TLC instance
      WarehouseStock      EXTENDS OrderStock: staff requests statement by statement,
                          refines it
        WarehouseProofs   theorems: types, the refinement, and the two races
        MCWarehouseStock  TLC instance
    Checkout              the checkout page and transaction, statement by statement
      CheckoutProofs      theorems about Checkout
      MCCheckout
    NotificationOutbox    the outbox of order mail, to customers and to staff
      OutboxProofs        theorems about NotificationOutbox
      MCNotificationOutbox
    StockLedger           abstract: units are free, or one open order holds them
      OrderLedger         EXTENDS OrderStock, INSTANCE StockLedger: the refinement mapping
      OrderLedgerProofs   theorem: OrderStock implements StockLedger
    Carts                 carts, their items and the merge at login
    GuestLinks            a guest's links to an order, and the mail that carries them
    Accounts              registration and confirmation of an address
    Support               a support request and its mail
    Thumbnails            image rows, thumbnail files, tasks
    Backfill              backfill_stock_reservations beside the shop
    PaymentSync           services and admin forms on the payments of one order
    PickupCalendar        business days and the selection of a sweep
      MailServicesProofs  theorems about Accounts, Support and GuestLinks
      ShopServicesProofs  theorems about Carts, Thumbnails, Backfill, PaymentSync and
                          PickupCalendar
      MCServices          TLC instance of the last eight
        ServicesProofs    theorems: what the eight have proved, for the composition

**OrderStock.** Each handler of an order runs in `transaction.atomic()` behind
`select_for_update()` on the order and the variants, so it is one action. Its state
is the status columns of `Order`, the order lines, the manual `Payment`, the two
stock columns and the set of variants that exist (`catalog`). `PlaceOrder` is
`create_order_from_cart` as far as it commits: it drops what cannot be sold, and is
refused as a whole if a line is above the SKU limit or above what is available.
`CancelOrder` is shared by `CustomerCancel`, `StaffCancel` and `AutoCancel`, each
with the guard of its caller; on an order that is cancelled already it still cancels
the manual payments, as the code does. `StaffPrepare` writes both status columns by
`apply_status` (`Columns`), `StaffIssue` is `consume_reserved_stock`.
`UpdatePayment` includes the rules for `paid_at` and the synchronisation.
`SelectExpired` reads a batch without locks and `AutoCancel` handles one selected
order later, with anything in between; `WorkerCrash` forgets the batch. `Elapse`
moves an order behind the rough cutoff of the query and then behind its deadline.
Orders pass the cutoff in the order of their starts, their deadlines come in any
order, as they do with business days: an older order that is not yet due takes the
place of an expired one in a batch. `SetStock`,
`CreateVariant`, `DeleteVariant` and `DeleteGroup` are the warehouse as the shop
promises it: atomic. This half of the module is therefore the abstract specification
of the warehouse.

**WarehouseStock.** The same warehouse as written: `get_object`, then
`clean_quantity` against the instance that was loaded, then `save()` of every
column; or `get_object`, an unlocked protection check, then `DELETE`. A staff
session has one request in progress (`request[s]`). With `Overlap = TRUE` everybody
moves at any time. With `Overlap = FALSE` the environment leaves alone, while a
request is open on a variant, the reservation of that variant, and its row while it
is edited; under that assumption `ImplementsOrderStock`, which is OrderStock's
`Spec`, holds. The mapping is the identity on OrderStock's variables: `request` is
the only addition.

**Checkout.** A submit goes through `dispatch` (the token just processed is answered
with its order; an empty cart is sent away), `form_valid`, the first lookup by
idempotency key, the limit check before any lock, the locks (user row, or one
advisory lock per guest dimension in sorted order), the second lookup, the limit
check under the locks, reading and locking the cart items, the third lookup behind
an empty cart, the outcome of the stock check, and the commit. `IntegrityError` on
the key leads to `Conflict` and `Recover`. `Respond` writes the session. READ
COMMITTED is modelled by `ReadCart` and `LockCart`: the statement first reads which
items the cart has, then waits for their locks and skips those that are gone. A
request keeps the copy of the session it loaded and saves it as a whole. Orders are
also paid, set to unpaid and closed, carts get new items, and workers die at any
point before they have answered.

**StockLedger** knows free units, what each order holds, and whether the order is
open, cancelled or issued. `OrderLedger` reads these from the columns: an order
holds its lines while `OrderStatusPolicy` counts it as relevant for reservations,
and what is free is `available_quantity`. So a clamp in `release`, a line released
twice or an order opened again would be a step the ledger does not have.

**NotificationOutbox.** `forStaff` says which notices go to the staff: their
recipients come from the settings, and nobody can resend them. `row[n]` is the log
row of one idempotency key. A job is first a web process (`Record`, or `Resend` by a
manager, then `MarkPending` from its copy, then `Publish`) and then the task it
published (`Start`, `Claim`, `Smtp`, `Finish`), which Celery retries under the same
id. Only `Claim` holds the row lock. `mail[n]` counts what the mail server accepted;
`lost`, `overwritten` and `died` are history variables that count the causes of
duplicate and stuck notices.

**Carts.** Every statement that waits for a row lock or decides something is a step;
what a transaction writes appears with its commit. Add and update lock the variant
first; an add sums up in Python with the quantity it has read and saves the row. A
removal locks no variant. The merge locks both carts in the order of their keys and
then the items of the guest's cart together with the variants they are joined with:
each item row first and its variant after it, so an add that holds the variant and
waits for the row meets a merge that holds the row and waits for the variant.
Of the transactions that wait in a circle the database picks one victim
(`CartVictim`); at a login that is a server error, and the browser has a session
whose guest cart nobody finds (`"lost"`).

**GuestLinks.** One guest order. A job follows one delivery of the "created" mail
through the web process and the task: who issues the token (`issue_token_for_email`,
which reuses the legacy raw token or makes one), who stores the content in the
notice, who sends it and what a lost answer repeats. Pages read the token, then the
order, then write `last_used_at`. `GuestRotate`, expiry and the claim by an account
may come between. `GuestGetOrCreate` and `GuestRotate` have no caller in a view yet;
the service offers them.

**Accounts.** Requests of several steps that load the user once: register (one
transaction; the broker may take the mail and still answer with an error), resend with cooldown, the link, the profile form, which saves every
column, and the deletion. Each request's mail is a task of its own, which may be
lost.

**Support.** The form commits the row and publishes; each delivery sends and then
writes success or failure; autoretry counts to `SupportRetries`. The admin's form
saves the flag its page showed and the error its POST has loaded.

**Thumbnails.** The receiver clears the metadata and enqueues; `ensure_thumbnail`
works on its copy: check, delete the old file, delete what has the target name, save
the file, and write into the row which image it was made of, whatever the row shows
by then. Names are stems with a suffix, so `a.png` and `a.jpg` collide, as they do
in the code.

**Backfill.** Orders are placed, cancelled and issued while runs of the command lock
the variants one by one in key order. In a maintenance window `backMode` is off and
checkout refuses; `--force` runs beside everything. `backShelf` counts the real
units.

**PaymentSync.** `OrderStock` has the services as transactions; here they are
statements with row locks against the forms of the admin, which write the payment
and let the signals write the order they have loaded. `PayVictim` is the transaction
a deadlock aborts.

**PickupCalendar.** Pure functions (`add_business_days` as a recursive function that
goes from one working day to the next, the deadline, the rough cutoff in calendar
days, the batch of the oldest), and a sweep at every moment of two weeks, for
settings below zero, zero, and beyond a weekend. `PickSweepIsExact` says in every
state what a sweep would do there: as a property of steps it would leave out the
sweeps that cancel nothing, which are the ones to ask about.

**MCServices** checks eight modules in one run. They share no row, so interleaving
them would show nothing: `part` says which one moves in a behaviour, and TLC
explores the sum of their state spaces, not the product.

Definitions marked `Fault:` are variants of the definition that follows them with a
plausible bug. Nothing in a module uses them; they stand in for it to show that the
property they belong to fails once the code has that bug.

## 3. Runs

| Run | Specification | Bounds | Checks |
|---|---|---|---|
| `order_stock` | `Spec`, variants symmetric | 2 orders, 2 products of one variant each in one category, stock 2, 2 per SKU, batch 1 | `TypeOK`, `ReservationExact`, `StatusCoherent`, `PromiseKept`, `CancelledHoldsNoMoney`, `PaymentMirrored`, `StockLeavesWithPaidOrder`, `FinalIsFinal`, `DeleteSparesOpenOrders`, `KeepsLedger` |
| `auto_cancel` | `FairSpec` | 2 orders, 1 variant, batch 1, 1 crash | `ExpiredEventuallyReleased` |
| `packing_cancel` | `Spec` | 1 order, 1 variant | `OpenUnpaidIsCancellable` is violated |
| `warehouse` | `StepSpec`, no overlap | 1 order, 2 variants as above, stock 2, 2 staff sessions | `StepTypeOK`, `ImplementsOrderStock` |
| `stale_form` | `StepSpec`, overlap | 1 order, 1 session, stock 1 | `ReservationExact` is violated |
| `stale_delete` | `StepSpec`, overlap | 1 order, 1 session, stock 1 | `DeleteSparesOpenOrders` is violated |
| `checkout` | `Spec`, symmetric | 3 submits, an account on two devices, two guests with a common email, 2 tokens, 2 items, limit 1 | `TypeOK`, `OneOrderPerToken`, `LimitHolds`, `ItemSoldOnce`, `EmptyForTwinOnlyAtDispatch` |
| `checkout_live` | `FairSpec` | 3 submits of two guests with overlapping lock keys, 1 item | `EverySubmitEnds` |
| `duplicate_submit` | `Spec` | 2 submits, two guests, 2 tokens, 1 item | `DuplicateReturnsOrder` is violated |
| `outbox` | `MCFairSpec` | 2 notices (one without recipient, one of them for the staff), 3 jobs for a customer's notice, 2 for the staff's, 1 retry, 1 lost answer and 1 crash per notice | `TypeOK`, `SentMeansMailed`, `SendingHasOwner`, `MailsAccountedFor`, `EveryNoticeSettles` |
| `duplicate_mail` | `MCSpec` | as above, no losses, no crashes | `RetryDuplicatesNothing` is violated |
| `services` | `ServicesSpec` | see below | `ServicesTypeOK`; carts: `CartMergesNeverDeadlock`, `CartGrowthIsCovered`, `CartNoAddLost`, `CartLoginsAddNothing`; accounts: `AcctGuestOrdersNeedLink`, `AcctLiveLinkWasMailed`, `AcctOnlyStaleEditsGoBack`; links: `GuestMailedLinkWorks`, `GuestOneLinkPerNotice`, `GuestRotationShutsOut`; `SupportOutcomeTold`; `ThumbShowsItsImage`; `BackfillMakesExact`; `PayCancelledStays`; `PickSweepIsExact` |

Bounds of `services`, part by part:

| Part | Bounds |
|---|---|
| carts | a guest with an item, a second browser that is logged in or is a guest with the same item, an account with or without a cart, 1 variant with 2 units, 3 requests of any kind |
| accounts | 1 address, 2 users (the second comes after a deletion), 4 requests, the first of which has registered |
| links | 1 order, with or without a legacy token, 2 tokens; either 2 deliveries and 1 crash, or 1 page |
| support | 2 deliveries, 1 retry each, 1 crash, 2 saves in the admin |
| thumbnails | 3 images of which two share a stem, 2 jobs, 2 forms, suffixes up to 1 |
| backfill | an order of old and one that is placed, 2 variants, 2 runs of the command, maintenance or `--force` |
| payments | 1 order, 2 payments, 2 requests of any kind |
| pickup | 2 orders, batch 1, settings -1, 0, 3 and 6, half days, two weeks |

Why these bounds suffice to meet the interesting cases. Two orders compete for stock
of two, in lines of one or two, so a line can be satisfied, cut off by the other
order, or above the SKU limit (carts go one above it). A batch of one with two
expired orders makes the sweep leave work for a later run. Three submits let two
duplicates meet a third party that fills a limit; two keys per guest with one in
common are the least in which a wrong order of locks deadlocks. Three jobs are the
original, its duplicate, and a resend. Two of anything that races in `services` are
the least that can race; a third cart request is what comes between two logins, and
a second image of the same stem is what makes names collide. Two weeks and a setting
of 6 let a deadline cross two weekends. The other bounds cap counters that grow for
ever in the shop (`MaxStock`, `MaxCrashes`, `MaxLost`, `MaxRetries` stands for the
setting). Where `CHECK_DEADLOCK FALSE` is set, the finite supply of submits or jobs
is used up; `EverySubmitEnds` and `EveryNoticeSettles` say that nothing hangs before
that.

### What the runs show to be wrong

* **A stale stock form loses a reservation** (`stale_form`). The form saves the
  `reserved_quantity` it has loaded. A checkout in between is overwritten, and the next
  customer is sold the same goods. `StepTypeOK` still holds: the row looks
  consistent, which is why it goes unnoticed.
* **A variant of an open order is deleted** (`stale_delete`): the check reads an
  unlocked, older reservation.
* **A duplicate submit gets an error** (`duplicate_submit`): the empty-cart check
  in `dispatch` and the limit check before the locks come ahead of any lookup that
  would find the order. No second order is created (`OneOrderPerToken`). The two
  places that say "your cart is empty" differ: `dispatch` says it to such a duplicate if
  its session does not remember the order, the check behind the third lookup never does
  (`EmptyForTwinOnlyAtDispatch`).
* **Two resends deliver a notice twice** (`duplicate_mail`): `mark_pending` is saved
  from an unlocked copy.
* **An unpaid order that is being packed cannot be cancelled** by anybody
  (`packing_cancel`), although the README's diagram has that edge.

How far each of these goes is a theorem; the end of section 4 lists them. A guest's
duplicate, for one, may also be refused behind the locks, for the limit or for stock.

### Behaviour worth knowing

These are allowed by the models because the code does them; the properties of the
`services` and `outbox` runs except them by name.

* Carts: an `add_item` that saves after a concurrent removal brings the row back with
  the whole sum. A merge drops what is sold out and may cut the account's own quantity
  to what is available. A login may be the victim of a deadlock with an `add_item`; it fails
  and the guest's cart stays with a session key nobody has. The automatic login after a
  confirmation strands the guest's cart in the same way.
* Accounts: a profile form that loaded the user earlier may un-confirm an address, revive a
  used link, or insert a deleted account again. A click on an expired link erases a
  newer token saved in between.
* Guest links: cancelling does not look at the token again. An order that an account claims
  between load and issue raises `ValueError` and fails the notice. Two processes
  that build the content at once make two links.
* Outbox: a failed staff notice cannot be resent, and a process that dies between
  `get_or_create` and publishing leaves it pending. A task that dies after its claim
  leaves the notice in `sending`.
* Support: the admin's form may write back an older outcome. Thumbnails: tasks for
  `a.png` and `a.jpg` that overlap may leave one image with the other's picture for good.
* Backfill: units of an old order that was cancelled before the run stay lost, since
  `release` clamps at zero.
* Pickup: deadlines do not follow the order of the starts. With three days an order of
  Friday evening falls due on Wednesday evening, one of Saturday morning on
  Wednesday morning, so a batch can be spent on older orders that are not yet due while an expired
  one waits. It waits no longer than the day: all of them fall due by midnight.
* Payments: a form that loaded the order before a cancellation writes another
  `payment_status` on it, which a repeated cancellation does not repair. Forms lock payment
  then order, services order then payment, so they can deadlock.

### Fairness

* `OrderStock`: Celery beat runs the expiry task again and again, and a running
  worker goes through its loop: weak fairness on `SelectExpired` and on
  `AutoCancel(o)`. Time passes, so an order that is kept gets older: weak fairness on
  `Elapse(o)`. Without the latter an older order could stay undecided between cutoff and
  deadline for ever and fill each batch of one ahead of an expired order. Customers and staff need not do anything. The conclusion is
  conditional on orders not becoming cancellable again for ever; without it staff
  who move older orders between packing and ready could waste every batch, since a
  batch takes the oldest candidates whether or not they can be cancelled.
* `Checkout`: a request that runs goes on (`WF(Step(r))`). A database lock is
  granted when it is free; a request that waits is not enabled, and finitely many
  submits cannot overtake it for ever, so weak fairness is enough.
* `NotificationOutbox`: a running process goes on, and workers consume the queue
  `email`. Nothing forces a manager to resend or a crash to happen.

## 4. Proofs

The theorems hold for every value of the constants that the named assumptions of the
modules allow: any finite sets of orders, requests and jobs, any variants, any
bounds. Each `*Proofs` module rests on the assumptions of the module it is about
(`ConstantsAssumption`, `CheckoutAssumption`, `OutboxAssumption` and so on) and on
nothing else. What these say beyond types: the sets that are counted are finite
(`Jobs`, `Requests`, `BackOrders`, `CartOwners` and the like, always rows of a table or
processes), a user's lock key is the user's own, and lock keys of cart rows and
orders are numbers.

| Theorem | Says |
|---|---|
| *OrderStockProofs* | |
| `TypeCorrect` | `Spec => []TypeOK`, the check constraint `reserved <= quantity` included |
| `StatusesCoherent` | `Spec => []StatusCoherent` |
| `ReservationsExact` | `Spec => []ReservationExact` |
| `PromisesKept` | `Spec => []PromiseKept` |
| `DeletionSparesOpenOrders` | `Spec => DeleteSparesOpenOrders` |
| `PaymentsMirrored` | `Spec => []PaymentMirrored` |
| `CancelledOrdersHoldNoMoney` | `Spec => []CancelledHoldsNoMoney` |
| `FinalStatesStay` | `Spec => FinalIsFinal` |
| `GoodsLeaveAgainstMoney` | `Spec => StockLeavesWithPaidOrder` |
| `RefundedOrdersStayOpen` | an open order whose money was given back keeps its lines until its payment is given another status |
| `OnlyPackingIsStuck` | the extent of `packing_cancel`: of the open orders without money only those in packing cannot be cancelled, until they are ready or paid |
| *OrderLedgerProofs* | |
| `ImplementsLedger` | `Spec => KeepsLedger`: `OrderStock` refines `StockLedger` |
| *WarehouseProofs* | |
| `WarehouseTypes` | `StepSpec => []StepTypeOK`, with or without overlap |
| `OnlyTwoRaces` | `StepSpec =>` each step is `[Next]_vars`, a `StaleSave` or a `LateDelete`: the extent of `stale_form` and `stale_delete` |
| `WarehouseIsAtomic` | every behaviour of `StepSpec` without a step of these two kinds satisfies `ImplementsOrderStock`, whatever overlaps in it |
| `OnlyStaleSavesDrift` | a reservation parts from what open orders hold only by a form that had read another one |
| *CheckoutProofs* | |
| `CheckoutTypes`, `TokenOrdersOnce`, `LimitsAreKept`, `RowsSoldOnce` | `Spec => []` of `TypeOK`, `OneOrderPerToken`, `LimitHolds`, `ItemSoldOnce` |
| `EmptyCheckSeesTheTwin` | `Spec => EmptyForTwinOnlyAtDispatch`: behind the third lookup the cart is never blamed for the twin that emptied it |
| `SubmitsNeverDeadlock`, `OnlyRunningSubmitsBlock` | no circle of waiting submits; who waits, waits for one that runs |
| `AccountsNeverConflict` | the second lookup of an account stands until its commit |
| `DuplicatesFailEarly` | the extent of `duplicate_submit`: which steps refuse a duplicate, and with which answer |
| *OutboxProofs* | |
| `OutboxTypes`, `SentIsTrue`, `SendingIsOwned`, `MailsHaveCauses` | `Spec => []` of `TypeOK`, `SentMeansMailed`, `SendingHasOwner`, `MailsAccountedFor` |
| `NothingLeftWaiting` | a notice is pending or sending only while a delivery is under way or after a death |
| `DeliveriesEnd` | every step of a delivery takes one from the finitely many it has left |
| *MailServicesProofs* | |
| `GuestOrdersNeedLink`, `LiveLinkWasMailed`, `OnlyStaleEditsGoBack` | the three properties of `Accounts` |
| `MailedLinksWork`, `OneLinkPerNotice`, `RotationShutsOut` | the three of `GuestLinks` |
| `OutcomeIsTold` | `SupSpec => []SupportOutcomeTold` |
| *ShopServicesProofs* | |
| `MergesNeverDeadlock`, `GrowthIsCovered`, `LoginsAddNothing`, `NoAddIsLost` | the four properties of `Carts` |
| `PicturesAreTheirOwn` | `ThumbSpec => []ThumbShowsItsImage` |
| `CancelledStaysCancelled` | `PaySpec => PayCancelledStays` |
| `BackfillIsExact` | `BackSpec => BackfillMakesExact` |
| `SweepsAreExact` | `PickSpec => []PickSweepIsExact` |
| *ServicesProofs* | |
| `ServicesTypes` | `ServicesSpec => []ServicesTypeOK` |
| `ServicesSafe`, `ServicesStepsSafe` | the other invariants and the action properties of `services`, of `ServicesSpec` |

Each of the eight services also has a theorem for its inductive invariant
(`AccountsInvariant` and so on), and all but `PickupCalendar`, whose types are part of
its invariant, one for its types. The run starts some of them further on
(`AcctStart`, `CartStart`, `GuestStart`, `BackBegin`: a user is registered, a cart is
filled, an order is placed); the theorems about a module start from its own `Init`, those
of `ServicesProofs` from where the run starts.

**Orders and stock.** The inductive invariant of the theorems up to `DeletionSparesOpenOrders` is `IInv ==
TypeOK /\ StatusCoherent /\ ReservationExact`. `TypeOK` is inductive: a release only
lowers the reservation, a reservation is refused beyond the quantity, the form refuses a
quantity below the reservation. `StatusCoherent` needs no more than the types.
`ReservationExact` needs both: issuing an order must take it out of the open orders,
which follows from its status pair, and cancelling must find the whole line in the
reservation, or the clamp at zero would break the equality. The sum of the lines of open
orders is stated as the cardinality of a set of units `<<order, i>>`, which spares
recursion: `HeldJoin` and `HeldLeave` say what that cardinality becomes when an order
joins or leaves, from the library's facts on disjoint unions and subsets. `PromisesKept`
follows without another induction: the units of one order are a subset of all the units
promised. For `DeletionSparesOpenOrders` an open order's line makes the reservation
positive, so the cheap test of `reserved_quantity` in the code is safe, provided it is
not stale.

**Money.** `MoneyAgrees` is the invariant behind the money theorems. `PaymentMirrored`
and `CancelledHoldsNoMoney` are not inductive one by one: a refund is accepted because
the payment or the order says succeeded, so `paid_at` is right only if both agree, and
on a cancelled order, where they may differ, only if neither says so. It is their
conjunction for one order, and `OneOrderAgrees` reduces each action to the rows it
touches. `GoodsLeaveAgainstMoney` adds that nothing but `StaffIssue` makes an order
delivered. `FinalStatesStay` needs the status pairs, since staff move orders by the key
computed from both columns.

**Orders that stay open.** Two situations leave an order with its reservation and without
a way out for its customer. `RefundedStep` and `StuckMoves` go through the requests that
can write such a row; most are excluded by `CanBeCancelled`, `CanBeIssued` or the status
pair, and what is left are requests of staff. A refund of what is refunded already, or
was never paid, is refused because order and payment agree (`MoneyAgrees`).
`OpenLinesStay` adds that no deletion reaches the lines meanwhile.

**Ledger.** `ImplementsLedger` is a refinement: `Spec => KeepsLedger`. `IInv` and
`ReservationExact` hold in both states of a step, so what is free after a checkout is
what was free less the order's own lines, and `release` never meets its clamp. Each
action gets a lemma that names the ledger's step: `PlaceKeepsLedger` is `Hold`,
`CancelKeepsLedger` is `GiveBack` or a stutter on an order that was cancelled before,
`IssueKeepsLedger` is `HandOver`. The warehouse is `Recount`, since a deletion, too,
only takes free units (`RemoveKeepsLedger`). `StateMoves` and `SameOrders` carry what an
action leaves alone. The initial states and the steps are put together in `LedgerStep`.

**Warehouse.** What the run `warehouse` checks is the lemma `QuietWarehouseIsAtomic`, for
`Overlap = FALSE`; it needs two facts about statements that do not lock.
`ReadStillTrue`: under `Overlap = FALSE` the reservation an open request has read is
still the one in the row, and what it is about to delete is reserved for nobody; this is
what the assumption on the environment buys. `GoneLeavesNothing`: a variant without a
row has no stock and no line, so a deletion that finds some or all of its variants gone
is a step of the atomic warehouse or a stutter. Every statement but the last of a
request stutters on `OrderStock`'s variables. `WarehouseTypes` holds with overlap, too:
a stale save writes a pair that was consistent when it was read.
With overlap the same steps are looked at without the assumption, which nothing in the
code provides: `StaleSave` and `LateDelete` name what is left over when a step is not one
of the atomic warehouse (`OnlyTwoRaces`). So any behaviour in which neither race is lost,
with checkouts and cancellations between reads and writes as they come, is a behaviour of
`OrderStock` (`WarehouseIsAtomic`), and
`ExactAt` states `ReservationExact` of a single variant, where a late deletion is still
exact, since it takes the lines together with the row.

**Checkout.** The invariant says of each request what its phase entitles it to
(`RequestOK`): once it is past the locks it holds all its lock keys until it leaves the
transaction (`HasLocks`); from the limit check to the commit there is room for one more
order under each of them (`Room`), since only a commit under the same key could take it;
and at the commit the rows it has locked are in its customer's cart and in nobody else's
hands (`RowsApart`). The commit then adds one order to each key with room, which is
`LimitHolds`, and moves rows out of a cart, which is `ItemSoldOnce`. `OneOrderPerToken`
rests on the unique key alone. A user's limit also counts orders that come back unpaid;
they are not created by a checkout, so `LimitsKept` counts what only a commit can add
(`CountedOrders`). `EmptyCheckSeesTheTwin` is about two steps: `RefusingSteps` lists those
that refuse a submit, and of these only `dispatch` and the check behind the third lookup
say that the cart is empty.

For the deadlock, `QInv` adds the order in which keys are taken: all that a waiting request
holds is below what it asks for. In a circle, look at the request that waits for the
greatest key: who holds that key waits for a greater one or for cart rows, and who
waits for rows waits for a request that is at its commit and waits for nobody. That
every holder runs is in `TypeOK`, since nobody outside a transaction holds anything. An
account looks its order up under the lock of its user row, which a twin would need for its
own commit, so the answer stands (`LookupStands`); a guest looks it up before it has its
locks. This is the whole difference between the two in `DuplicatesFailEarly`.

**Outbox.** The argument counts rights to mail a notice: a row that may be claimed is
one, a job between claim and acceptance holds one. A claim moves the right from the row
to the job, a refusal moves it back, an acceptance spends it; only a lost answer or a
stale save makes a new one. So `mail + rights <= 1 + lost + overwritten`
(`RightsBounded`), which is `MailsAccountedFor` and stays true where that alone would
not be inductive. `NothingLeftWaiting` needs that a pending row has a delivery on its way
(`PendingHasJob`), or a process that has died. `StepsLeft` counts what a delivery may
still do: four steps for each retry left and those to the end of this attempt. A
lemma for each kind of step shows that it makes the number smaller and hands a pending row
on (`Advances`). What keeps `EveryNoticeSettles` from being proved is only that a step
that is possible is also taken.

**Accounts.** Rows live in the table and in the memory of requests, where they may be
old, so the invariant speaks of both: a confirmed row of user i, wherever it is, has a
link behind it that was mailed to i and followed; a token belongs to one user and to the
request that made it (`AcctRowOK`). Primary keys are never given out twice, which is why
a row that a stale form inserts again is still its own user's.

**Guest links.** A link that is mailed, stored or held by a process is active or was
rotated away, and the links stored so far are no more than the contents that were built.
The second part gave a sharper property than the model had at first: all mails carry the
first link, and each content saved over another adds at most one
(`GuestOneLinkPerNotice`), whatever tokens were reopened on the way.

**Support.** As long as the row is silent, the view or a task is on its way to write it
(`SupWriterLeft`); and nobody says "sent", in the row, in a task or on a page, of a mail
that was not accepted (`SupSaysTrue`).

**Thumbnails.** The name of every thumbnail has the stem of the image it was made of: in
the storage, in the row, and in each copy of the row. A task writes under the name of
the image it has read, and the row's `source` says which that was.

**Carts.** `CartGood` ties each request to the locks it holds and what it has read under
them: the variant's stock and the item's quantity from the lock to the write, the items
of the guest's cart during a merge. `CartFrame` says what one request may do to what
another relies on; each action is shown to be such a step once, and all the rest follows
by cases of the phase. For the deadlock: among logins into one account that all wait for
each other, one holds the account's cart and waits for the guest's, and the one that
holds that waits for the account's. Each would hold the cart of the lower key, and the
keys of two carts differ. Nobody among them waits for an item, since who locks items
holds the account's cart already.

**Payments.** A service has the order's lock alone and its copy knows whether the order
is cancelled; a form that knows it writes "cancelled". That the latest payment exists
(`PayTopExists`) is an argument by a least counterexample, see below.

**Backfill.** For each variant the reservation is at most the demand of the active
orders, and the quantity with that demand at most the real units with the reservation,
with equality unless a release was clamped (`BackSums`). A run that has read the demand
holds every row, and an order's transaction that ends holds one of its own, so the
demand it has read is still right when it commits. Demand is the number of pairs of an
order and a unit (`BackUnitsMove` says by how much one order moves it).

**Calendar.** The loop of `add_business_days` stops on the first day by which so many
working days have passed (`PickReached`, `PickLoopCounts`), whatever the hour; so an
order has expired exactly if it has had its days (`PickExpiresExactly`). Working days
are never more than days, so the rough cutoff hides nothing (`PickCutoffIsSafe`), and an
older order falls due on the same day at the latest (`PickOlderIsDue`). An earlier
version of the property said that only a batch of cancellations can leave an expired
order behind; the proof failed at the order of deadlines, TLC had not seen it because it
was stated of steps and the sweep in question changes nothing, and it is false.

Induction: the induction theorems of the library take an operator as a parameter, which
the provers cannot instantiate. Where a proof needs one on numbers (`PayTopExists`,
`PickLoopEnds`, `PickLoopCounts`, `CircleBroken`) it takes a least counterexample instead, from
`NatLeast`, which is the library's `WFMin` for the order of the natural numbers.

**Composition.** In `MCServices` a behaviour moves one of the eight modules and leaves
the others where they started. `OneServiceMoves` and `EachServiceRuns` say so, and the
composition has what each module has (`ServicesInvariant`). The starts that the
run has chosen are the only new work (`AcctStartHolds`, `GuestStartHolds`): a registered
user and a placed order have to satisfy the invariants like the empty shop.

Only model-checked: liveness (`ExpiredEventuallyReleased`, `EverySubmitEnds`,
`EveryNoticeSettles`), since fairness and `ENABLED` are out of the prover's reach. Of the
last two the safety half is proved, see above; of the first it is `SweepsAreExact`, with the
dates that `OrderStock` abstracts from. A run that expects a violation needs no proof, one
behaviour is enough; but how far each violation goes is a theorem: `OnlyTwoRaces`,
`OnlyStaleSavesDrift`, `DuplicatesFailEarly`, `MailsHaveCauses`, `OnlyPackingIsStuck`.

## 5. Not modelled

* In `OrderStock`: audit records, notices, prices and addresses; columns edited in
  the admin; `STOCK_RESERVE_MODE_ENABLED = False`; orders from before reserve mode
  (`Backfill` has those); a product moved to another category; payments of online
  providers, which the code does not create.
* In `WarehouseStock`: the expiry task between two statements of staff (its stock effect
  is that of the customer's cancellation, which is there), names, prices, images.
* In `Checkout`: row locks on variants and products, removing cart items, the age
  window of the guest limits, a GET request that races with the session's save.
* In `NotificationOutbox`: message texts, the path of old tasks without a log row, a
  missing `DEFAULT_FROM_EMAIL`, a process that dies before its callback ran.
* In `Carts`: carts of the checkout page (in `Checkout`), prices, the session's expiry.
* In `GuestLinks`: hashes and raw values, orders by several accounts.
* In `Accounts`: passwords and their reset, sessions, addresses of a profile.
* In `Support`: the text of a request. In `Thumbnails`: synchronous mode, cutting the picture.
* In `PaymentSync`: moving a payment to another order, `paid_at` (in `OrderStock`),
  the statuses `failed` and `requires_action`, which no rule tells from `pending`. The three
  queries of `resolve_payment_status` are one look.
* In `PickupCalendar`: summer time, public holidays (the code has none).
* Free edits of a superuser in the admin: no rule of the code holds there.
* Two managers who set a primary image at once: every outcome is legal for the code.
* Components marked `not_modelled` in `PROJECT.json`, each with its reason there.

## 6. Plan

Done, in this order: `OrderStock` with its runs and theorems, `WarehouseStock`,
`Checkout`, `NotificationOutbox`, `Carts`, `GuestLinks`, `Accounts`, `Support`,
`Thumbnails`, `Backfill`, `StockLedger` with its refinement proved, staff notices in
the outbox, `PaymentSync`, `PickupCalendar`.

Proved, in this order: `OrderStock` (stock, then money), its ledger, the outbox, `Checkout`,
the refinement of the warehouse, the eight services, the extent of what the violated
runs show, the safety halves of two liveness properties, and the composition of
`services`. Every invariant and every action property that a passing run checks is a
theorem.

Modelling left: a composition of orders and outbox, for the process that dies
between COMMIT and its callback.
