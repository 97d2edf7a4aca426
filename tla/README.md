# A TLA+ development for SwiftSale

SwiftSale is a point-of-sale system: a Django backend (`src/backend`, API by
Django Ninja, PostgreSQL, Celery and Redis) and a Next.js frontend
(`src/frontend`).  What makes it hard is what happens between two SQL
statements: several cashiers sell the last units of a product at once,
providers deliver a webhook twice, a worker dies between the call to the tax
authority's operator (the OSE) and its own COMMIT.  These modules describe
those steps, and what a browser adds to them: lists that are out of date,
dialogs whose request is answered late, two tabs that refresh one session.  TLC
checks the modules on small instances and TLAPS proves their safety properties
for every instance.

Paths below are relative to `src/`; `apps/` stands for `backend/apps/`.

## 1. Inventory

| Component | Source | State it keeps | Operations | Hard behaviour | What makes it correct |
|---|---|---|---|---|---|
| Sales transactions | `apps/sales/services.py`, `models.py` | `sales`, `sale_items` | `create_sale`, `cancel_sale` | two handlers on the same rows, deadlock between the locking orders, a crash in a loop, a retried cancel | a completed sale took exactly its items, a cancelled one gave back exactly all of them |
| Inventory | `apps/products/services.py`, `models.py` | `inventory.quantity`, `inventory_movements` | `adjust_stock`, reads | lost update, stock below zero, low-stock message for a rollback | the movements explain the quantity; quantity never negative |
| Catalogue | `apps/products/services.py`, `api.py` | `products`, `categories` | create, update, soft delete | product deactivated while it is being sold; uniqueness by query | a sale only of active products |
| Checkout | `apps/sales/checkout.py` | none of its own | `create_sale` and `process_payment` in one transaction | retry with the same key, a crash between sale and payment | sale and payment together or not at all; one sale per key |
| Payments | `apps/payments/services.py`, `models.py`, `api.py` | `payments` | `process_payment`, `handle_webhook`, `reconcile_stale_payments` | duplicated and late webhooks, racing reconciliation, retries | settled is final; a reference settles one payment; a sale is paid once |
| Payment notification | `apps/payments/tasks.py` | the Celery queue | `notify_payment_result` | runs twice, or before the commit | the cashier is told what the database says |
| Electronic billing | `apps/billing/services.py`, `models.py`, `api.py` | `billing_series`, `billing_documents` | `issue_document`, `void_document` | crash after the number was claimed or after the OSE call; two requests for one sale, or two voids, at once; a sale cancelled meanwhile | correlativos without gaps and duplicates; ACCEPTED is what the OSE said; a document is voided once |
| OSE client | `apps/billing/ose_client.py` | none | `send_document` | timeout whose request was processed | - |
| Receipt task | `apps/billing/tasks.py` | the Celery queue | `generate_and_send_receipt` | runs twice, or for a document that is rolled back | a receipt only for an issued document |
| Audit log | `apps/audit/services.py` | `audit_logs` | `log_action` | its failure aborts the caller's transaction | logging never changes what it logs |
| Notifications | `apps/notifications/consumers.py`, `apps/products/tasks.py`, `frontend/src/hooks/useWebSocket.ts` | channel groups; the hook's references, sockets, timer | connect, push, close, reconnect, clean up | a push to nobody; retries used up; a cleanup beside a socket that is still connecting | one live socket at most; deaf only after every try failed |
| POS terminal | `frontend/src/app/pos/page.tsx`, `store/posStore.ts` | cart, step, countdown, pending requests | edit the cart, start and cancel a payment, confirm, QR wait | events of another sale, an answer that never comes, a step that is set but not rendered | a cart has one line per product; the success screen is true; the processing screen ends |
| Session | `apps/authentication/` (its `security.py` included), `frontend/src/services/api.ts`, `hooks/useAuth.ts`, the login page and the layout | the cookies of a browser, the blacklist of refresh tokens; in each tab the queue of requests behind a refresh and the user | login, me, refresh, logout, the interceptor | two tabs refresh with one token; an answer with new cookies is lost; requests queued behind a refresh that fails; a logout beside a refresh | every request is answered or fails; the refresh cookie stays good |
| Rate limiter | `backend/core/ratelimit.py` | a counter with an expiry in Redis | `check_rate_limit` | EXPIRE on every request | - |
| Sales page | `(dashboard)/sales/page.tsx` | filters, sheet, query cache, mutation | filter, open, cancel a sale | a fetch from before the cancellation fills the list after it | what is reported as done shows in the list |
| Inventory page | `(dashboard)/inventory/page.tsx` | search, two dialogs, cache, mutation | search, adjust, look at the movements | a form that survives its dialog, an answer that closes another dialog | an adjustment was typed into its own dialog |
| Products page | `(dashboard)/products/page.tsx` | list, sheet, dialog, sheet of categories, caches, four mutations | create, edit, delete; create and toggle categories | a late success closes the sheet that is open now; toggles of what a stale list shows | the form is that of the product it is saved to |
| Billing page | `(dashboard)/billing/page.tsx` | filters, two dialogs, a lookup, cache, two mutations | look up a sale, issue, read, void | a lookup answered in another dialog; the series of the last type | series and type fit; what is voided was accepted |
| Users page | `(dashboard)/users/page.tsx`, `apps/users/` | list, two dialogs, cache, two mutations | create, deactivate, reactivate | the list is stale when the button is pressed; a late success closes the dialog that is open then | a success closes no dialog but its own |
| Read-only pages | `(dashboard)/payments`, `audit`, `dashboard`, `reports` | query caches | filter, page | - | - |
| Reports, health, settings, seeding | `apps/reports`, `backend/core`, `backend/config` | caches | aggregates | none of their own | - |

They interact through rows of PostgreSQL and their locks (everything in
`apps/`), through `transaction.on_commit` callbacks that hand messages to
Celery (`payments`, `billing`, `products`), and through groups of the channel
layer that the Celery tasks push to and the browsers listen on.  The pages share
nothing but the cookies, by way of the API client, and the query client, in
which each has keys of its own.

`PROJECT.json` lists the components with what is modelled of each, and the
hazards at their lines.

## 2. Modules

    Stock            sales, inventory, catalogue rows: statement by statement
      StockLedger      the atomic shop Stock promises to be
      StockRefinement  the refinement mapping Stock -> StockLedger
      StockProofs      TypeOK, Ledger, NonNegative for every instance
      SumProofs        sums over sets and sequences, for the module below
      StockRefinementProofs  SaleAccounted, AlertsAreCommitted, ActiveWhenSold,
                       NoStandstill and the refinement for every instance
      MCStock          instances for TLC
    Payments         payments, webhooks, reconciliation, notification task
      PaymentBook      the book of payments Payments promises to be
      PaymentsRefinement  the refinement mapping Payments -> PaymentBook
      PaymentsProofs   the safety properties and the refinement for every instance
      MCPayments       instances for TLC
    Billing          series, documents, the OSE, the receipt task
      BillingRegister  the append-only register Billing promises to be
      BillingRefinement  the refinement mapping Billing -> BillingRegister
      BillingProofs    the safety properties and the refinement for every instance
      MCBilling        instances for TLC
    Terminal         the POS page with POST /checkout, webhooks and events
      TerminalProofs   TypeOK and the four safety properties for every instance
      MCTerminal       instance for TLC
    QueryCache       TanStack Query: fetch, fill, failure, ageing, invalidation
      SalesPage, InventoryPage, ProductsPage, CategorySheet, BillingPage,
      UsersPage        a page of the dashboard each (CategorySheet half of one)
    NotificationSocket   useWebSocket, the hook
    Screens          the dashboard: the pages and the hook side by side
      ScreensProofs    lemmas about QueryCache, the inductive invariant of each
                       page, and every property of Screens for every instance
      MCScreens        instance for TLC
    Session          cookies, API client, login and logout, token rotation
      SessionProofs    the safety properties for every instance
      MCSession        instance for TLC

**How code becomes actions.** A *request* is one HTTP call.  Its handler is cut
where another transaction can come between: at each statement that reads
committed data, takes a row lock or can wait for one, and at COMMIT.  PostgreSQL
runs at its default READ COMMITTED, so a plain SELECT reads what is committed
when it starts and `SELECT ... FOR UPDATE` waits for the row and then reads its
latest version.  What a transaction has written is kept in the request's locals
(`copy`, `drafts`, `correlativo`, ...) and becomes visible in the action that
commits.  `Rollback`, in Payments and Billing also `Answer`, is what every
exception and early refusal does: locks free, nothing changed, an HTTP status
for the client.  `Crash` may do the same before any COMMIT.  The row a request
creates has the request's name (a payment row that of its idempotency key), so
no counter has to be bounded.

**Stock.**  `CreateSale` takes the snapshot of the locking query,
`LockInventory` locks one row and evaluates `is_active` on its latest version,
`CheckLines` compares each line with the stock it read, `SellLine` is one round
of the write loop, `CommitSale` the commit.  `CancelSale`, `LockSale`,
`RestoreLine`, `CommitCancel` and `AdjustStock`, `LockAndAdjust`,
`CommitAdjust` are the other two handlers.  `Waits` and `Deadlocked` are
PostgreSQL's wait-for graph, `DeadlockVictim` its detector.  Of the three
handlers only `adjust_stock` sends the low-stock message (`LowStockMessage`).
`SoftDelete` and
`UpdateProduct` are the catalogue writes a sale can meet; they wait for the
product row, which the locking query locks with the inventory row because
`select_related` joins it and no `of=` is given.  Money (prices, IGV, totals)
is left out, except for the refusal of a negative discount.

**Payments.**  `ProcessPayment` (lookup of the key), `ReadSale`, `CheckPaid`
(EXISTS query and amount), `InsertPayment` (unique index: wait, then fail if
taken), `CommitPayment`; `Webhook` (lookup of the reference), `ClaimPending`
(row lock), `RecordRef` (unique index), `CommitWebhook` with `on_commit`;
`Reconcile` as one UPDATE; `Notify` with Celery's late acknowledgement; `Age`
for the passing of `STALE_PAYMENT_MINUTES`; `CancelSale` as the step of Stock
that payments can see.

**Billing.**  `IssueDocument` (sale read without a lock), `CheckExisting`,
`ClaimNumber` (series lock, number, insert), `SendDocument` (the HTTP call,
inside the transaction), `CommitDocument`; `VoidDocument`, `CommitVoid`, with
`voided_at` for who has voided it; `GenerateReceipt`; `CancelSale`.  `ose` is what the operator has received: it
does not forget when the transaction rolls back.

**The abstract specifications.**  `StockLedger`, `PaymentBook` and
`BillingRegister` say what the rest of the shop may rely on, without requests,
locks, transactions or crashes.  In the ledger a sale takes its basket at once
and a cancellation gives it back.  In the book a payment is opened once for one
sale, and settled once: at the counter, by a delivery that is about this payment
and whose reference settled no other, or by being given up; the cashier hears
only of what a delivery settled.  The register is only added to: an entry takes
the number after the entries its series has, and the only thing that happens to
one is that an accepted entry is voided.  The refinement modules map the
committed rows to these variables (the ledger's baskets are the items of the
sales by product, the register's entries the rows of `billing_documents`), so
everything uncommitted is invisible by construction, and what has to be shown is
that each COMMIT is one abstract step.

**Terminal.**  The store (`items`, `method`), the state of the page and the
requests it has sent.  `AddItem` and `UpdateQuantity` are the buttons of the
grid and the cart, `StartPayment`, `CancelPayment`, `ConfirmSale` and
`ResetPos` those of the steps; `Tick` and `Expire` the countdown's timer and
effect; `Succeed` and `Fail` the two ends of `submitSale`'s promise, `Fail`
also when the answer is lost.  `step` is what was set last and `shown` what was
rendered last: a click renders at once, a promise, timer or frame later
(`Render`), and `stepRef`, which `onMessage` (`Receive`) looks at, is `shown`.
Of the server, `CreateSale`, `FindPayment` and `InsertPayment` are
`CheckoutService.checkout` with its one transaction, coarser than in Stock
(inventory rows are taken in one step, what makes `create_sale` refuse is left
open) and without the interleavings of Payments; `Webhook` and `Notify` are the
steps of Payments that reach the page.  Money, discount, cash received and the
product search are left out: no step depends on them once the cashier presses
the button.  `Stock!DistinctCarts`, which `NoOverselling` needs, is what
`CartsAreDistinct` says of the carts this terminal sends; other clients of
`POST /sales` need not keep it.

**QueryCache.**  What a query answers is modelled as its *snapshot*, the set of
committed writes it reflects; how a row looks, which rows a filter lists and in
which order is left open.  A fetch takes its snapshot when it is sent.  A real
answer may have read later and then reflects more, which is what the next fetch
would bring.  `Asked`, `Filled`, `Failed`, `Aged` and `Collected` are what the
library does by itself, any of them at any time for any query, so `staleTime`,
focus, retries and `gcTime` need no clock.  `Invalidated` is
`invalidateQueries` of version 5: a query on the screen is fetched again and
the fetch under way is given up for it (`cancelRefetch`), except for the very
first fetch of a query, which has no data to fall back on, and for a query off
the screen, which is only marked.  The fetch that such an invalidation came too
late for is marked `late`: its answer clears the mark of the invalidation and
may show as fresh what it had read before.  That is the library's behaviour,
not a defect of these pages, and the properties except it by name.

**The pages.**  Each has the rows it writes, as sets of writes; the state of the
component (`useState`), one variable for one hook; its part of the cache; its
mutations; and, for the properties alone, what it has reported (`told...`).  A
mutation is sent, served (the write commits) and then succeeds or fails; it may
also fail when it was served, because the answer is lost.  A success does what
`onSuccess` does to the page as it is *then*: it closes whatever is open by that
time.  `Others...` are the writes of
other users and of requests that a page gave up when it was left.  A button that
is disabled or hidden is a guard; what a dialog covers cannot be pressed.

**Screens.**  The pages share no query key, and a page that is left takes its
dialogs with it.  They do share rows: a cancellation on the sales page moves
the stock that the inventory page lists.  To a page that is a write of somebody
else, and its `Others...` action may write at any time.  A behaviour of the
dashboard is therefore one behaviour of each page, side by side, and every
property speaks of one page; `screen` chooses the one that is followed.  So TLC checks the sum of the pages' state spaces and not their
product, and the proof needs one lemma a page: its step keeps its invariant, and
leaves the others' variables alone.

**NotificationSocket.**  `RunEffect` and `CleanUp` are the effect and its
cleanup, `Open`, `Close` and `Retry` the handlers of the socket and of the
timeout, `connect` the callback they share.  A mounted component enables the
hook once: who logs out leaves for another document.  The consumer accepts while
the access cookie is good, which `CookieChanges` leaves open.

**Session.**  One browser with one jar of cookies, several tabs, each with its
`api.ts` (`isRefreshing`, `pendingQueue`), its `authStore` and its page.  `Ask`
sends a request with the cookies of the moment; `Answer`, `NetworkError`,
`RejectSecond`, `Queue` and `StartRefresh` are the ends it can have in the
interceptor, `RefreshSucceeds` and `RefreshFails` those of the refresh, with
`flushQueue`.  The server reads the blacklist (`CheckToken`) and rotates
(`RotateToken`) in two steps, as `AuthService.refresh` does; `LoginSucceeds`,
`ServeLogout` and `LogoutSucceeds` are the other two endpoints.  `Unload` is
the end of a document, `PushLogin` the router's move within one.  Each request
is made once.  The names of tokens are reused once nothing refers to them, and
leave the blacklist then: simplejwt never makes a token twice, and a token that
nobody holds cannot be told from one that never was.

## 3. Runs

The runs of the backend allow each request to be any operation, in any order,
with a crash at any point.  A request that is done stays done, so the instances
of `MCPayments`, `MCBilling` and `MCSession` end, and deadlock is not checked
there.  `MCStock`, where catalogue edits go on, `MCTerminal` and `MCScreens`,
where the user does, check it.

| Run | Instance | Question |
|---|---|---|
| `MCStock` | 2 products with 2 units, 3 requests, carts of two lines (1 and 2 units, both orders), an empty cart, a negative line, negative discount, adjustments of -1 and +1, one product edited, with fairness | Do ledger, sales, stock and low-stock messages agree, is a sold product active, can the transactions be told from atomic ones (`ImplementsLedger`), do they never stand still but in a deadlock that is found, and is every started request answered? |
| `MCPayments` | 1 sale, 2 keys, 1 reference sent for both keys with different verdicts, one status that no payment has, 4 requests | Is settled final, does a reference settle one payment, is the cashier told the truth, can the handlers be told from an atomic book (`ImplementsBook`)? |
| `MCPaymentsLive` | 1 key, 1 delivery, 3 requests, with fairness | Does the reconciliation, if it is run again and again, settle every pending payment? |
| `MCBilling` | 2 sales, 1 series, 3 requests, OSE failures of each kind | Are numbers without gaps and duplicates, documents what the OSE said and voided once, receipts for issued documents, can the handlers be told from an append-only register (`ImplementsRegister`)? |
| `MCTerminal` | 2 products, up to 2 units in the cart, 2 requests, 2 keys, cash and Yape, a countdown of 1 second | Are carts well-formed, do sale and payment commit together, is the success screen true, does the processing screen end? |
| `MCScreens` | each page with one row and two views of its list (the users and the categories have one view, the users page two accounts), one write a sale or an adjustment, two of a product or an account, three of a receipt or a category; two category requests at once; two sockets and the 5 retries of the code | Do lists show what was reported, do a form, an adjustment, a series and a void fit what they are sent for, does a late success of the users page close its own dialog, do notifications come by one socket until all tries have failed? |
| `MCSession` | two tabs: three requests in one, a login and a logout in the other; four tokens; with fairness | Does a request wait only for a refresh that is going on, is the refresh cookie good, and does every request end? |

In `MCScreens` one row of a page is enough because the pages treat rows alike and every
hazard is about one row in two places (the list and a dialog, the cache and the
table); a second dialog may be opened for the same row, which is how an answer
meets a dialog that did not send it.  The users page has two accounts, since
its dialog is told from another by the account.  Two views are what a query off the screen
needs.  `Errands` fixes for a behaviour of the billing page whether the user
issues or reads, and in which role: the two dialogs share no state but the
list, and a role does not change while a page is open.  `MaxUnseen` bounds how
many queries the cache holds off the screen.  In `MCSession` three requests in a
tab are an owner, one that queues behind it and one that comes too late, two
tabs are what racing refreshes need, and four tokens let each tab hold one with
another in the jar and one to be made.

Two requests and two keys are what a repeated confirmation, a confirmation that
races the countdown and an event of an earlier sale need; two units make the
difference between a line that grows and a second line.  Card and Plin take the
branches of cash (a step of their own, no timer) and Yape (a QR, settled by a
webhook).  Products, requests and keys are interchangeable, hence the symmetry of
`MCTerminal`.

Three requests are the least that show a cycle of two with a bystander, a
retry beside the original and a third party, or a number claimed, lost and
claimed again.  Two units a product make the second sale fail when the first
commits, and the carts in both orders produce every deadlock between
`create_sale` and `cancel_sale`.  Two products are enough because a handler
treats its lines one by one and two are needed to lock them in opposite
orders.  Requests are interchangeable in the models, which is why the symmetry
over them is sound in `MCPayments` and `MCBilling`; the runs with liveness
(`MCStock`, `MCPaymentsLive`, `MCSession`) do not use any.

Violation runs, each with one property that a document, a comment or a test
states and the code does not keep (`findings` in `PROJECT.json` has the
quotes):

| Run | Property | What happens |
|---|---|---|
| `MCStockDuplicates` | `NonNegative` | two lines of one product in a cart are each compared with the whole stock |
| `MCStockAudit` | `SuccessMeansCommitted` | a failing audit insert aborts the transaction, the client reads 200 |
| `MCPaymentsPaidOnce` | `PaidOnce` | two keys, two requests, both past the EXISTS query |
| `MCTerminalKey` | `OneSalePerKey` | the answer of a committed checkout is lost; confirmed again, it commits a second sale |
| `MCTerminalEvent` | `ConfirmationIsOwn` | the confirmation of an earlier payment submits the sale on the QR screen |

Other disagreements, and oddities of the same kinds, have no run of their own:

- `issue_document` looks for an existing document as `process_payment` looks for
  a paid payment, with no lock, and can bill a sale twice.
- A number the OSE has accepted is claimed again when the transaction is rolled
  back after the call (`apps/billing/services.py:132`), and another document is
  sent under it; `docs/architecture.md:197` wants no gaps and no
  duplicates.  The database has none (`Correlative`), the OSE may have duplicates.
- A submission that failed is never sent again (`apps/billing/services.py:145`).
- A duplicate webhook that overlaps the first delivery is answered 404 or 500
  and not ignored; a broker error in `on_commit` is swallowed
  (`apps/payments/services.py:29`); nothing schedules the reconciliation, which
  is why `SettledIfReconciled` has it as a premise.
- `docs/frontend.md:434` and `:456` have a second 401 redirect to `/login`; the
  interceptor only rejects.  `docs/frontend.md:475` has the page poll when the
  socket is lost; `:54` defers that, and no page does.
- A wrong password is a 401 too, so the interceptor refreshes, fails and reloads
  `/login`: the message "Credenciales incorrectas" is gone before it can be
  read.
- Of two tabs that refresh at once the loser is sent to `/login`, although the
  cookies it shares with the winner are good.  When the answer with the rotated
  token is lost, the jar is left with the old one and only a login helps;
  `JarIsUsable` excepts this by name (`lost`).
- A refresh that passed the blacklist before the logout of another tab, and is
  answered after it, brings the session back, though `README.md:141` speaks of
  immediate revocation.
- A lookup that is answered when its dialog has been closed and another opened
  fills that one (`(dashboard)/billing/page.tsx:156`): a receipt is then issued
  of a sale that was asked for in the dialog before.  The sale is shown with its
  id; the model has the step (`SaleFetched`), and no property forbids it.
- The default series of the billing dialog is looked up with the type of the
  dialog before (`(dashboard)/billing/page.tsx:232`), that is with none, so there
  never is one.  The toast of an issued receipt (`:195`) is worded by the dialog that
  is open when the answer comes; that of a changed account
  (`(dashboard)/users/page.tsx:102`) by the row from before the change, and so
  says the opposite of what was done.

**Fairness.**  In Stock and Payments `FairSpec` gives weak fairness to a started handler, to a Celery
task that is in the queue, and in Payments to the passing of time.  It is what
a live server does: gunicorn keeps running the handler, PostgreSQL grants a
lock when it is free and looks for deadlocks, `acks_late` makes the broker
deliver a task again.  Clients, crashes, cancellations and the reconciliation
get none: nothing in the code makes them happen.  A lock wait is not a step, so
weak fairness of `Handle(r)` says nothing while `r` waits; that a wait ends is
what `RequestsTerminate` has to show.  In Session `SessionFairness` says that a
call is answered or breaks down (the browser gives up a connection, the server
stops a worker) and that a tab which leaves gets away; users, expiry and the
administrator get none.

## 4. Proofs

| Theorem | Says |
|---|---|
| `StockProofs!TypeCorrect` | `Spec => []TypeOK` |
| `StockProofs!LedgerCorrect` | `Spec => []Ledger` |
| `StockProofs!NoOverselling` | `DistinctCarts => (Spec => []NonNegative)` |
| `StockRefinementProofs!SalesAccounted`, `AlertsCommitted` | `SaleAccounted`, `AlertsAreCommitted` are invariants, for any carts |
| `StockRefinementProofs!SoldWhileActive` | `Spec => ActiveWhenSold` |
| `StockRefinementProofs!NothingStandsStill` | `Spec => []NoStandstill`, for any carts |
| `StockRefinementProofs!StockImplementsLedger` | `DistinctCarts => (Spec => ImplementsLedger)` |
| `PaymentsProofs!TypeCorrect`, `RefsSettleOnePayment`, `CashierToldTheTruth` | `TypeOK`, `RefSettlesOne`, `ToldTheTruth` are invariants |
| `PaymentsProofs!SettledIsFinal` | `Spec => Final` |
| `PaymentsProofs!PaymentsImplementBook` | `Spec => ImplementsBook` |
| `BillingProofs!TypeCorrect`, `CorrelativosHold`, `AcceptedByOse`, `ReceiptsForIssued` | `TypeOK`, `Correlative`, `AcceptedIsTrue`, `ReceiptsAreIssued` are invariants |
| `BillingProofs!DocumentsAreStable` | `Spec => DocumentsStand` |
| `BillingProofs!BillingImplementsRegister` | `Spec => ImplementsRegister` |
| `TerminalProofs!TypeCorrect`, `CartsHoldOneLinePerProduct`, `NoOrphans`, `SuccessIsCommitted`, `ProcessingHasARequest` | `TypeOK`, `CartsAreDistinct`, `CheckoutIsAtomic`, `SuccessIsTrue`, `NeverStuck` are invariants |
| `ScreensProofs!ScreensTypeCorrect`, `ListsStayRecent`, `SheetStaysRecent`, `AdjustmentsAreTyped`, `FormsAreOfTheirProduct`, `SeriesFitTheirType`, `VoidsStayDue`, `DialogsAreClosedByTheirOwn`, `OneLineAtMost`, `DeafOnlyAfterRetries` | every property that `MCScreens` checks is an invariant |
| `SessionProofs!SessionTypeCorrect`, `NobodyWaitsForNothing`, `JarStaysUsable` | `SessionTypeOK`, `NobodyIsStranded`, `JarIsUsable` are invariants |

They hold for any sets of products, keys, sales, series, requests, rows and
views of a page, sockets, tabs and tokens, and for any bounds, and
assume only what the modules' ASSUMEs say of the constants (the null values are
not members, initial quantities are natural numbers, payloads are of their
types, there is a token, each page starts on one of its views).

*Stock.*  `Ledger` alone is not inductive: the commit copies `drafts` and
`copy` into the tables.  `LockInv` adds that whoever has drafts of a product
holds its row, and that the drafts of a holder lead from the *committed*
quantity to the one in hand; no other commit can have moved the committed
quantity, because the row is locked.  `LinesInv` says where a handler's lists
come from (a single change for `adjust_stock`, a treated prefix and a rest for
`create_sale`), which the type of what is committed rests on.  For
`NonNegative`, `CoverInv` adds that the stock a handler checked stays enough
for the lines it has left: the rows are held since the check, and no two lines
are of the same product.  This is where `DistinctCarts` is needed; without it
`MCStockDuplicates` is the counterexample.

*What a transaction adds up to.*  `SaleAccounted` and the refinement speak of
sums: of the units of a cart, of the movements of a sale.  They need one account
for each open transaction, `AccountInv`.  `Written(r, p)` is what request `r`
must have written of product `p` by the lines it has treated: minus the first
part of a cart that is being sold, plus that of one that is being restored.
`AccountOK` says that the quantity in the handler's hands differs from the
committed one by exactly that, and that its uncommitted movements add up to it
and name no other sale.  `SaleOK` says that the sale row a handler works on is
in the state it read (absent, or completed and locked), `InputOK` that it still
works on the cart it was called with.  At COMMIT the account is the change of
the ledger: `CommitSale` is `Sell`, `CommitCancel` is `Cancel`, `CommitAdjust` is
`Adjust`, and all else stutters.  `DistinctCarts` is used once, for `Sell`, which
takes no more than there is; `SaleAccounted` holds for carts of any shape.
`ActiveWhenSold` has `ActiveInv`: what a handler has found active is locked by
it and still active, because the row lock of the joined `products` row keeps
`SoftDelete` and `UpdateProduct` out.

*No standstill.*  `NoStandstill` is what makes the locks of Stock safe for
liveness, and unlike `RequestsTerminate` it needs no fairness: of the started
requests one is free or on a cycle of waits, so `DeadlockVictim` is enabled.
`StandInv` says that whoever holds a row has started and is not answered (no
`End` forgets a lock) and that finitely many have started.  The rest is about a
finite graph: if every started request waits, and only for started ones, then
among the sets of requests closed under waiting a smallest one is a cycle
(`SomeoneIsFree`).

*Sums.*  The sums are folds of the community modules, and a fold chooses the
order in which it adds.  `SumProofs` shows that the order does not matter
(`SumRemove`: any member may come first; `SumMoved` and `SumReordered`: nor do
the names of the indices) and derives what the accounts use: the sum of an
appended, a concatenated and a shortened sequence.  Its inductions are in the
form that a set of natural numbers without a least element is empty, so they
need no induction theorem with an operator as its parameter.

*Payments.*  `OpenInv` ties a handler between its lock and its commit to the
row: an `inserted` key is still free, a `recording` payment still pending, a
`recorded` reference still unused, each because the handler holds the lock
entry.  `RowsInv` says that only payments with a row have a sale, a reference
or a task, and that a task exists only for a settled payment, from which
`ToldTheTruth` and `Final` follow.  For the book, `BookInv` adds what a handler
carries: a sale that exists, or key, reference and verdict of one and the same
delivery; and that a payment in the queue of the broker has its reference.  So
`CommitPayment` is `Open`, `CommitWebhook` is `Settle`, `Reconcile` is `GiveUp`,
`Notify` is `Announce` or nothing.

*Billing.*  `OpenInv` says that a request which has claimed a number holds the
series row, so the number is still `last_correlativo + 1` at its commit, and
that the status it is about to store is what the OSE answered.  Gaps cannot
come from a rollback because the increment and the document are in the same
transaction.  `ReceiptsAreIssued` is inductive beside it: a receipt is enqueued
by the step that commits its document, and issued documents stay.
`DocumentsStand` needs the row lock of `void_document` too: two voids that have
both read `accepted` would set `voided_at` twice.  For the
register, `RegisterInv` adds that `last_correlativo` is how many documents the
series has, so that the number a commit stores is the next one of the register;
`CommitDocument` is `Issue`, `CommitVoid` is `Void`, `GenerateReceipt` is
`Announce` or nothing.

*Terminal.*  `AnswersInv` says that the sales are exactly the requests the
server has answered with one, so no open transaction has a row yet; `KeysInv`
that a page which has left its cart, or waits, has a key, and that what
`create_sale` lets pass has a key and a method.  With them the payment a
checkout finds or inserts is under the key of its sale.

*Screens.*  Each page has an invariant of its own.  It says that what a page
has reported is committed, and that the queries the report is about are
`Recent`: no answer that shows as fresh, or would when the fetch under way
fills it, lacks what was reported, the `late` ones excepted.  The lemmas about
the cache give the two facts all pages rest on: a step of the cache keeps `Recent`, because
what a fetch takes is what is committed, and an invalidation establishes it.
Beyond that, the billing page needs that what is listed has happened, so that a
receipt listed as accepted was accepted when it is voided; the users page, that
the row of a pending change is the only one a dialog can show, because the
buttons of the list are disabled until it is answered; the hook needs
`Running`, which relates its socket, its timeout and `missed`, the tries that
never got open.  A page's step leaves the other pages' variables alone and so
their invariants (the `...Stutter` lemmas); the sum is `ScreensInv`.

*Session.*  `RefreshIsOwned` says that of each tab that refreshes exactly one
request is the owner, and that the queue holds exactly the requests that wait;
`NobodyIsStranded` follows, and would not without the half about the queue.
`NewIsItsOwn` says that a token which the server has just granted is nowhere
but in its answer, so nobody else can have put it on the blacklist when the
answer reaches the jar; `JarIsUsable` follows.

The inductive invariants (`LedgerInv`, `CoverInv`, `AccountInv`, `ActiveInv`, `StandInv`,
`PaymentsInv`, `BookInv`, `BillingInv`, `RegisterInv`, `TerminalInv`, those of
the pages, `SessionInv`) were checked
with TLC before they were proved; adding one as an INVARIANT of the
component's configuration repeats that.

## 5. Only model-checked

Every invariant, action property and refinement that a passing run checks is a
theorem.  Liveness stays with TLC: `RequestsTerminate` (a started request of
Stock is answered, deadlocks included), `SettledIfReconciled` and
`RequestsSettle` need fairness and ENABLED, about which TLAPS proves nothing.
The five properties of the violation runs are false, and there is nothing to
prove about them.

## 6. Not modelled, and what could follow

- *Catalogue*: SKUs and category names are unique by a query before the insert
  only, and `update_product` saves every column of a row it read without a lock.
  Next would be a module `Catalog` with both, and the edit that overwrites a
  `soft_delete`.
- *Rate limiter*: `check_rate_limit` renews the expiry with every request, so a
  client that is refused and goes on stays refused.  It is one counter; a module
  of it would restate the two Redis commands.
- *Channel layer*: groups, their expiry, and the fan-out of the low-stock task.
  A push to a group without a member is dropped, which `Terminal` has as an
  event that is not received.
- *Terminal*: a sale cancelled between checkout, webhook and document; Payments
  and Billing have `CancelSale` on their side.
- *Mutations paused offline*: TanStack Query holds a mutation back while the
  browser is offline and resumes it later, and some callbacks read the dialog's
  state again then; the pages' mutations are sent when they are asked for.
- *Amounts*: prices, IGV, totals and change, in the services and in the pages.
- *Read-only pages* (payments, audit, dashboard, reports): they have queries
  and no mutation, and take only the steps of `QueryCache` by itself.

Left out for good: reports (read-only aggregates), the UBL document, its
signature, PDF and HTTP payloads (pure renderings), settings, health checks and
seeding.
