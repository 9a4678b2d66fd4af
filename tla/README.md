# Verification of the Mini Marketplace

TLA+ models of the shop in this repository (NestJS back end over Postgres, Redis
and BullMQ; React front end), the TLC runs that check them on small instances,
and proofs that TLAPS checks for every number of customers, products and
requests. Paths below are relative to the repository.

- [1. The system](#1-the-system)
- [2. What is modelled where](#2-what-is-modelled-where)
- [3. Properties and runs](#3-properties-and-runs)
- [4. Bounds](#4-bounds)
- [5. Fairness](#5-fairness)
- [6. Disagreements between the code and what is said of it](#6-disagreements-between-the-code-and-what-is-said-of-it)
- [7. Proofs](#7-proofs)
- [8. Abstractions, and what is not modelled](#8-abstractions-and-what-is-not-modelled)
- [9. Plan](#9-plan)

## 1. The system

| component | state | operations | talks to |
|---|---|---|---|
| Orders (`backend/src/orders/orders.service.ts`, `inventory.service.ts`) | rows of Product (stock), Order, OrderItem, CartItem | `checkout`, `updateStatus` (cancel restocks), queries | Postgres by interactive transactions at READ COMMITTED, the catalogue cache, the queue |
| Orders queue and worker (`orders.processor.ts`, `queue/`) | BullMQ jobs, one per order | add, process (sleep, `updateMany` where NEW), retry, redelivery | Postgres, Redis |
| Catalogue and its cache (`products/`, `categories/`, `redis/cache.service.ts`) | Product and Category rows; `products:cache-version`, list keys that carry the version, `products:detail:<id>`, TTLs | `findAll`, `findOne`, create, update, remove, `setImageUrl`; bump and del | Postgres, Redis; invalidated by Orders too |
| Cart (`cart/`) | CartItem rows | add, set quantity, remove, each checked against the stock | Postgres; emptied by `checkout` |
| Authentication (`auth/`, `users/`, `frontend/src/api/client.ts`) | per user, a bcrypt hash of the refresh token issued last; access token in the browser | register, login, refresh (rotates), logout; the client's single-flight refresh | Postgres, cookies |
| Analytics (`analytics/`) | none | aggregates, CSV | Postgres |
| Front-end server state (`frontend/src/hooks/`) | TanStack Query caches | optimistic cart updates with rollback, invalidations | the API |
| Customer and admin pages (`frontend/src/pages/`) | forms, dialogs, the URL of the catalogue | submit, edit, filter | the hooks |
| Validation, error filter, configuration (`common/`, `config/`) | none | translate requests and errors | - |
| UI kit (`frontend/src/components/ui/`) | none of the shop | vendored shadcn/ui | - |

What makes each hard, and what makes it right:

- **Orders.** Any number of checkouts, cancellations, stock edits and product
  deletions interleave statement by statement. The conditional `UPDATE` and the
  row lock it takes have to prevent overselling; the sort of the lines has to
  prevent deadlocks between checkouts; a rollback has to undo everything; what
  is read *before* the transaction (the cart, the order and its status) may be
  stale when it is used. Correct: stock never negative, units leave and come
  back once per order, statuses are final, an order takes what it charges.
- **Queue.** Delivery is at least once, with failing attempts, workers that
  stall after their write, and administrators who change the same order during
  the three seconds of processing; the process may die between the commit and
  the add. Correct: a decision of an administrator stands, and no order stays in
  the NEW of its checkout.
- **Cache.** Readers check, query and store in three steps, writers commit, bump
  and delete in three others. Correct: no reader stores an old list where new
  requests look, and what races and crashes leave is gone with the TTL.
- **Cart.** The service reads the row, checks the stock and writes in separate
  statements, beside other requests of the customer, stock edits, deletions and
  checkouts. Correct: what is written was in stock during its request, and the
  adds of a customer who waits for answers add up.
- **Sessions and sign-in.** Refresh tokens rotate; tabs share the cookie but not
  the store, and each client lets the calls that got a 401 wait for one refresh.
  Registrations of one address race, and answers arrive at pages that were left.
  Correct: no call waits for ever, nobody is signed out without a reason, a
  logout ends the session, and a success means that the account is one's own.
- **Pages.** Mutations overlap, roll back snapshots and cancel each other's
  fetches; dialogs are closed and opened while a save is under way; the search is
  in two fields, two debounced values and the address. Correct: when all is
  answered the page shows what the server has, and a click did what it was for,
  once.
- **Reports and export.** One set of orders is summed in five ways, over buckets
  of local days in a time zone whose clock may change, and written as CSV. Correct:
  the sums agree, no order is in two days and few are in none, and a spreadsheet
  reads the cells that were written.
- **Request pipeline.** Five places may refuse a request, and requests overlap at
  the limits of the throttler. Correct: what is refused has changed nothing.

`PROJECT.json` lists every component, and under `hazards` each line where one of
these difficulties bites, with the properties that watch it.

## 2. What is modelled where

| module | what it is |
|---|---|
| `StockLedger` | abstract: the promise about the warehouse. Units leave the shelf as the lines of one order, all or none, come back at most once per order, and otherwise change only when an administrator restates a stock |
| `Orders` | checkout, updateStatus, the automatic transition, cart edits, stock edits and product deletion, statement by statement with row locks, rollbacks and crashes |
| `OrdersQueue` | the life of the jobs of the orders queue (BullMQ, external, as `queue.module.ts` and the add call configure it) |
| `OrderPipeline` | `Orders` composed with `OrdersQueue`: the end of a checkout adds the job, the worker's write is the automatic transition |
| `ProductCache` | the read-through cache of the catalogue and every writer that invalidates it |
| `Cart` | `CartService`, statement by statement |
| `Session` | tokens, cookie jar, stores and axios clients of the tabs of one browser: refresh rotation, logout, expiry, single-flight refresh |
| `SignIn` | the guarded routes, the form of `AuthPage`, `register` and `login` |
| `OptimisticCart` | the query "cart" of the browser, its optimistic mutations and its fetches, against the server |
| `ProductPage` | quantity stepper, "Add to cart" and its notes, on the product page and on a card |
| `CatalogSearch` | the search fields, filters, pages and address of the catalogue |
| `CheckoutPages` | checkout form, order confirmation and order history |
| `AdminProducts`, `AdminCategories`, `AdminOrders` | the tables and dialogs of the administrators, with the back end they talk to |
| `Analytics`, `SalesCsv` | the reports as operators over changing orders; the text of the export and a reader of it |
| `HttpPipeline` | guards, throttler, validation, handler and exception filter |
| `Shop` | the thirteen parts that share no state with the orders, in one specification |
| `*_proofs` | theorems (section 7) |
| `MCOrders`, `MCOrderPipeline`, `MCProductCache`, `MCSession`, `MCShop` | the instance of one module for TLC |
| `MCProgress` | instances of four modules, for liveness |

The parts that `Shop` instantiates (and the four of `MCProgress`) share no state.
Each behaviour belongs to one part, chosen in `Init` and kept in `part`, and the
parts take turns in using the variables `s1`, `s2`, ... as theirs. So one run
explores the union of their state spaces, not the product, and a property of a part
is stated with `part` as its condition.

### Orders

A request is one HTTP call; `pc[r]` is the statement it executes next, or how it
was answered. `stock`, `catalog`, `cart` and `status` are the *committed* rows.
An open transaction is what it has locked (`held[r]`) and the cart rows it has
deleted (`cleared[c]`); nobody else sees its writes, and its commit applies them
at once. `lines[c]` is the cart that checkout `c` read, which becomes the items
of order `c`.

| action | code |
|---|---|
| `ReadCart` | `cartItem.findMany` before the transaction, the empty-cart refusal (orders.service.ts:49-55) |
| `DecrementLine`, `RejectLine` | one conditional UPDATE of `decrementStock` in sorted order: it locks its row, or affects none and rolls back (inventory.service.ts:18-29) |
| `PlaceOrder`, `Commit` | `order.create`, `cartItem.deleteMany`, COMMIT (orders.service.ts:68-96) |
| `InvalidateCache`, `Enqueue` | what follows the commit (orders.service.ts:100-106) |
| `ReadOrder` | `findById` and the guards, before the transaction (orders.service.ts:134-143) |
| `RestockLine`, `CancelOrder` | the UPDATEs of `restock`, then `order.update` and COMMIT (orders.service.ts:144-154) |
| `WriteStatus` | the plain `order.update` (orders.service.ts:160-164) |
| `AutoProcess` | `updateMany` where NEW of the worker (orders.processor.ts) |
| `Rollback`, `Lose` | a transaction that times out, is a deadlock victim or loses its connection; a process that dies, or a Redis that refuses, outside one |
| `SetCartItem`, `RemoveCartItem`, `SetStock`, `RemoveProduct` | the rest of the back end, one committed statement each |

Two switches describe the environment. `Overlap` says whether one account may
have several requests in flight: the pages disable their buttons while a
mutation is pending (`CheckoutPage.tsx:177`, `AdminOrdersPage.tsx:143`), but two
tabs, or two administrators, overlap all the same. `Crashes` says whether the
process may die between two steps.

### OrderPipeline

Every step of `Orders` with the queue beside it. `EnqueueStep` is the last step
of a checkout together with the add; `WorkerWrites` is the write of a job,
which takes `AutoProcess` or finds the order moved on. `writer[c]` records who
changed an order last. The composition implements `Orders` (`ImplementsOrders`).

### ProductCache

What a reader sees of a product is a *revision*, the number of the write that
produced it; one list key per version stands for all list queries. A list reader
takes `ListVersion`, `ListGet`, `ListQuery`, `ListSet`; a detail reader
`DetailGet`, `DetailQuery`, `DetailSet`; a writer `Write` (in the form of the
operation it is), `Bump`, then `Del` of its detail keys in any order, as
`Promise.all` sends them. `ChangeCategory` writers have no detail keys to delete:
the code deletes none. `settled[v]` records the latest revisions whose writers
had bumped by the time the version became `v`.

### Cart

`pc[r]` is the next statement of request `r`: `AddFindProduct`, `AddFindItem`,
`UpsertSelect`, `UpsertInsert` (Prisma's upsert with an include is a SELECT and
then an UPDATE or an INSERT), `UpdateFindProduct`, `WriteRow`, `DeleteRow`.
`SetStock`, `RemoveProduct` and `BuyCart` are what others do in between. `best[r]`
remembers the highest stock during a request. Whether the customer waits for each
answer before the next request is chosen at the start (`patient`), here and in
`Session` and `OptimisticCart`: what is promised to a patient user is a property of
the same behaviours. `Orders` has the cart's operations
as one step each; this module is about what happens inside them.

### Session and SignIn

A pair of tokens is its number, in both halves; `hash` is what the user row holds,
`jar` the cookie, `store[t]` the copy of the persisted store that a tab read when
it opened. A call of the API is served with the badge it carries (`Served`), gets
a 401, and either starts the refresh of its tab or waits for it (`Denied`);
`RefreshServed` compares and rotates, `RefreshGranted` repeats the calls that wait,
`RefreshRefused` and `RefreshLost` reject them and clear the store. `CookiePath`
and `BaseUrl` are the paths by which a browser decides whether to send the cookie.

In `SignIn`, `Routed` is what the router shows for a path and a user, `Remembered`
the `state.from` it keeps. An attempt is one submitted form; only the page that
submitted it navigates when the answer comes (`owner`), but the store takes it in
any case. `Rivals` are registrations from other browsers.

### Pages

Every mutation is sent, served and answered in steps of their own; answers may be
late or lost; a query has its data, a mark that it is invalidated, and a fetch
that is served before it is answered, so that an old answer can arrive after a new
write. TanStack Query is external: the modules state what its options in the hooks
make it do (`onMutate` snapshots, rollback in `onError`, `invalidateQueries` which
cancels a fetch and starts another if the query has data, and joins the fetch under
way if it has none, one retry of a fetch, refetch when the window gets the focus,
cached data that stay while a page is unmounted, and go after a while). A control that
the page disables is a conjunct of the action's guard, and where several attributes
of the page decide on it they have an operator of their own (`Controls`).

- `OptimisticCart`: `Click`, `Serve`, `Lose`, `Settle` of a mutation, `FetchServed`,
  `FetchAnswered`, `FetchFails`, `ComeBack`.
- `CheckoutPages`: `Submit`, `ReadCart`, `PlaceOrder`, `Reject`, then `Succeeds`,
  `Refused`, `Lost`, or `Breaks` when the connection ends before the server has
  finished; the history is a query as above, whose first fetch (`history = Missing`)
  an invalidation joins.
- `AdminProducts`: `handleSave` is a create or update and then an upload, whose
  target is taken from what its closure captured (`save`), not from the dialog. As
  history, a form carries the product in whose dialog it was filled in (`of`), a file
  the product it was chosen for, and a row whose form wrote it last.
- `AdminCategories`: a save stays pending until the fetch that its success asks for is
  in (`SaveEnds`); the first load is joined, later ones are replaced (`Invalidate`).
- `AdminOrders`: reading and writing a status are two steps, as in `Orders`. It is
  where the assumption `~Overlap` of `Orders` comes from: `CancelledOnce` holds
  until the administrator (`Leave`) or the connection (`Breaks`) leaves a change that
  the server is working on; `left` records that.
- `CatalogSearch`: the timers of the debounced values are actions without an
  order among them; the effects that follow a value are part of its step.

### Reports, export, request pipeline

`Analytics` has time in hours and dates as numbers. A time zone has two kinds of days,
`standard` and `summer`, each with its hours ahead of UTC (`Ahead`); a local date
begins at the `Midnight` of its kind, so it is shorter or longer than a day where the
clock changes. `SalesByDay` steps by local dates, starts its buckets at their midnights
and names them by their UTC date, as `setDate`, `setHours` and `toISOString` do.
`SalesCsv` writes the export over an alphabet of the characters that matter and reads
it as a spreadsheet does: RFC 4180, and a row also ends at a line feed or a carriage
return that stands alone outside quotes. `HttpPipeline` takes a request
through `JwtAuthGuard`, `ThrottlerGuard`, `RolesGuard`, `ValidationPipe` and
`Handler` in the order in which `app.module.ts` and the controllers register them.

## 3. Properties and runs

| run | configuration | shows |
|---|---|---|
| `orders_races` | `OrdersRaces.cfg` | two customers race for the last unit of two products while an order is cancelled, stock edited, products deleted, transactions rolled back and processes killed, with any overlap: no overselling, reserved units stay, orders keep their products, locks never outlive a transaction, checkouts never wait in a circle |
| `orders_serial` | `OrdersSerial.cfg` | when an account waits for each answer: final statuses are final, a cancelled order is restocked once, an order takes precisely what it charges from the cart, `Orders` implements `StockLedger`, and the units of that ledger add up - across crashes too |
| `pipeline_delivery` | `PipelineDelivery.cfg` | jobs that fail twice and lose their worker once: an administrator's decision stands, completed jobs have done their work, every order leaves the NEW of its checkout; the composition implements `Orders` |
| `cache_converges` | `CacheConverges.cfg` | readers against writers that may die before they invalidate: a list answer never misses a settled write, the current list is an old one only when a dead writer still owes its bump, and both caches converge by their TTL |
| `progress` | `Progress.cfg` | liveness, of four parts: requests that wait for each other's rows are answered, calls that share a refresh settle, the cart page catches up with the server, the search comes to rest |
| `shop` | `Shop.cfg` | the safety of the thirteen parts around the orders, each with its overlaps, late and lost answers and pages that are left |
| `orders_final_status`, `orders_double_checkout`, `pipeline_crash`, `pipeline_clobber`, `cache_detail`, `session_cookie_path` | `OrdersFinalStatus.cfg`, ... | violations, section 6 |

What `shop` and `progress` say, by part:

| module | property | says |
|---|---|---|
| `Cart` | `CartWritesStand` | however requests overlap and stocks move, a quantity that is written was in stock at some moment of its request; an add of a patient customer goes on top of the row it finds |
| `Session` | `TabsStaySignedIn` | no tab ends signed out unless there was a logout, the cookie expired or an answer got lost, although access tokens expire and tabs refresh at once |
| | `LogoutIsFinal` | after a logout that overlaps no other call, no token refreshes until somebody logs in (one that overlaps a refresh need not end the session: section 6) |
| | `CallsSettle` | every call is answered or rejected (liveness) |
| `SignIn` | `RegistrationsStand` | of the registrations of one address that race, the one that succeeded keeps the account |
| | `ReturnsToWantedPage` | who was sent to the form by a protected page gets to that page |
| `OptimisticCart` | `SettledShowsServer`, `ConvergesToServer` | when nothing is in flight the page shows the server's cart; and that happens (liveness) |
| | `NoFlicker` | an older fetch does not put an old quantity back while a click is not answered |
| `CheckoutPages` | `BoughtOnceAsListed` | a visitor who waits buys a cart once; an order costs what its products cost at some moment of the request |
| | `HistoryComplete` | a profile that has fetched shows every order its query was told of, unless it was told while it kept a fetch that the server had answered before |
| `AdminProducts` | `SavesGoWhereMeant` | one product per dialog and per save that failed after its create; what a row holds was typed into the dialog of its product, and an uploaded file is at the product it was chosen for, whatever the dialog shows by then |
| `AdminCategories` | `TableShowsDatabase` | when nothing is under way the table is the database's, however saves and deletes cancelled each other's fetches; not if an answer was lost, another administrator wrote, or the first load was served before a write that joined it |
| `AdminOrders` | `CancelledOnce` | an order is restocked once, whatever dialogs are closed and opened while answers are due, as long as no change that the server works on was left alone |
| `CatalogSearch` | `SearchSettles` | fields, address and debounced values do not pull at each other for ever (liveness) |
| `Analytics` | `DaysAddUp` | no order is in two days; in none are only some of today's, off UTC, and those of the UTC date that a change of the clock leaves out |
| | `ReportsAgree` | summary, groups and export sum the same orders to the same money; the top has those that earned most |
| `SalesCsv` | `CsvRoundTrip` | the cells read are the cells written, if no name has a carriage return without a comma, quote or line feed (`Portable`) |
| `HttpPipeline` | `RefusalsAreClean` | what is refused changed nothing, what changed something was allowed to, a route's limit holds for requests that come in at once |
| all thirteen | `TypesOK` | the type invariant of the part, with what the part's module adds to it (`AdminCategories`: no product's category is deleted) |

Every property of a passing run has a mutant in `PROJECT.json`: a plausible bug
(a lock not taken, a line not sorted, an `attempts` option forgotten, a version
not bumped, a query not cancelled, a closure that reads the dialog, ...) under
which TLC finds the property violated. The mutated operators stand beside the
originals, marked "Mutant of".

`orders_*`, `pipeline_*`, `shop` and `progress` say `CHECK_DEADLOCK FALSE`: once
all requests are answered and all clicks of the bound are used the system has
nothing left to do. Waiting in a circle is covered by `CheckoutsNeverDeadlock` and
`RequestsAnswered`, waiting for an answer by `CallsSettle`.

## 4. Bounds

- `Checkouts`, `Updates`, `Writers`, readers: each member is one request and runs
  once (readers repeat). Two checkouts are enough to race, to wait in a circle
  and to buy one cart twice; a third adds no new pair. One update beside two
  checkouts gives the restock/checkout circle; two updates of one order give the
  stale check.
- `StockLevels = {1}` with carts of 1 makes every product the last unit of its
  kind; `{0, 2}` with carts of 1 and 2 gives partial cover, restatements up and
  down, and quantities that differ from the cart that is read later. Two products
  are the least with an order of lines; where no property needs two, one is used.
- `Attempts = 3` is the code's; `MaxStalls = 1` is BullMQ's default.
  `MaxErrors = 2` bounds the failing attempts of a job: with three, a job is given
  up for good, and nothing can be promised. `MaxDeaths = 1` bounds the stalls
  likewise: a second one exceeds `MaxStalls`.
- In `ProductCache` the versions reach at most the number of writers; two writers
  suffice for a reader to be caught by one and to meet the other. `clock` grows
  with the writers only, so no further bound is needed.
- `Cart`: two adds, an update and a removal of one product, from a customer who
  waits and from one who does not (a lost increment needs two adds; rows of
  different products never meet).
- `Session`: `MaxTokens` bounds the pairs issued since a login. Two tabs with a
  request each and one rotation, with lost answers and an expiring cookie; in
  `progress` two requests of one tab, so that one waits for the other's refresh.
- `SignIn`: two submissions of the visitor, one rival, one free address and the
  administrator's.
- `OptimisticCart`: two clicks, that overlap or wait for each other, with two lost or
  failing answers. A rollback needs one other mutation to harm.
- Pages: two of whatever can overlap (submissions, saves, changes, deletes, adds)
  and one failure; `AdminProducts` opens one dialog to create and creates two
  products, `AdminCategories` has two names, so that a name can be taken.
- `AdminOrders`: the administrator uses three of the five statuses (`Choices`): a first
  one and both final ones; PROCESSING is written by the worker, and SHIPPED differs
  from it in nothing that the page or the service looks at.
- `CatalogSearch`: one word and three inputs for safety, two words and four inputs
  for liveness: an input that changes its mind while the last value is on its way.
- `Analytics`: two orders of two products in two days of two hours, in UTC, in a zone
  one hour behind it, and in one that is an hour ahead and changes back to UTC: an
  order can fall before, into and after every bucket, and into the date that the change
  leaves out. Lines
  of one or two pieces (`Qtys`) at prices of 2 and 3 tell sums of money, of pieces
  and of lines apart.
  `TopLimit` 1 (the code: 5) makes the limit bite.
- `SalesCsv`: two lines, three characters: enough for a quote, a separator and a
  line break in one cell, or in neighbours.
- `HttpPipeline`: limits of 2 and 1 instead of 100 and 5, two requests in flight.

Symmetry: in `shop`, the categories, the names, and the simultaneous exchange of
the members of every other pair (`Pairs`), tabs together with their requests; not
the products, whose prices differ. `shop` has 3.5 million distinct states,
`orders_races` and `orders_serial` 1.3 million each, `cache_converges` 0.4 million,
`pipeline_delivery` and `progress` 0.2 million. In `progress` the orders do not
overlap: one customer, two checkouts and a status change; circles among overlapping
checkouts are the invariant of `orders_races`, and proved.

The proofs of section 7 remove these bounds for the properties they cover.

## 5. Fairness

- `Orders!FairSpec`: weak fairness of serving a request that was started (the
  event loop and Postgres run what is enabled), and of `DeadlockVictim`, the
  database's deadlock detector, which aborts a transaction only when it waits in
  a circle. No fairness for a customer to send anything, for a rollback otherwise
  or for a crash.
- `OrderPipeline!FairPipelineSpec`: weak fairness of what a checkout does after
  its commit, of the worker's write and of the queue handing jobs out. Failures
  need none: they are bounded.
- `ProductCache!FairSpec`: weak fairness of finishing a read that has begun, and
  of expiry: every key is set with a TTL. Writers need no fairness; a writer that
  never bumps is a crash.
- `Session!FairSpec`: weak fairness of the steps of a refresh and of a call that
  was sent: each is served and answered, or lost, in the end.
- `OptimisticCart!FairSpec`: weak fairness of a fetch that was sent and of the
  answer to a click. The visitor need not come back to the window.
- `CatalogSearch!FairSpec`: weak fairness of the three debounce timers, of a
  navigation under way and of the fetch.

`MCProgress!FairSpec` states those of its four parts. Nothing is assumed of
visitors, administrators, losses or crashes.

The violation run of a liveness property (`pipeline_crash`) states fairness too,
so that its counterexample is not a system that merely stopped.

## 6. Disagreements between the code and what is said of it

1. **A final status can be overwritten** (`orders_final_status`;
   orders.service.ts:137). `updateStatus` checks an order that it read outside
   the write. Two changes in flight pass the check together: the second one
   overwrites COMPLETED or CANCELLED, and two cancellations restock twice. The
   README (line 53) says such changes are refused. They are, when requests do not
   overlap (`FinalStatusesStay`).
2. **One cart can be charged for units it does not hold**
   (`orders_double_checkout`; orders.service.ts:49). The cart is read before the
   transaction, and rows of those products are deleted with whatever quantity
   they have by then; a second checkout of the same cart creates a second order.
   The README (line 47) says the rows "just bought" are removed. With one request
   at a time they are (`OrdersTakeTheirCarts`).
3. **An order may stay NEW for ever** (`pipeline_crash`; orders.service.ts:102).
   The job is added after the commit and after the cache commands, and nothing
   repeats it if the process dies, or Redis refuses, in between.
4. **The worker can overwrite an administrator's status** (`pipeline_clobber`;
   orders.processor.ts:29), if that status is NEW: `updateMany` compares the
   status and not its author. The comment says it "can never clobber".
   What does hold, and is checked, is `AdminDecisionStands`.
5. **Cached details can be stale** (`cache_detail`; products.service.ts:42). A
   detail key has no version: a reader that queried before a change stores after
   the `del`. The comment at orders.service.ts:42 says "never stale"; for lists
   that is true (`CurrentListIsFresh`), for details only the TTL heals it
   (`CachesConverge`).
6. **The refresh cookie is not sent where the client asks** (`session_cookie_path`;
   auth.controller.ts:34). The cookie has the path `/auth`. With `VITE_API_URL=/api`
   - `.env.example`, `docker-compose.yml`, `frontend/Dockerfile:9` and the default
   of `client.ts:6` - the client refreshes at `/api/auth/refresh`, which that path
   does not cover: the first access token that expires, after 15 minutes, signs the
   tab out, and the seven days of the README (line 25) are never used. With
   `http://localhost:3000`, as in `frontend/.env.example`, it works: in run `shop`
   the same property, `TabsStaySignedIn`, holds.

Reading the code for the models showed more, about which the repository promises
nothing, or nothing precise enough to refute; the steps are in the modules:

- *Sessions.* bcrypt compares 72 bytes, and the tokens of one account differ after
  them: any refresh token of the account that has not expired matches the hash, also
  one that was rotated out (`Matches`; `MatchesExactly` is what one would expect where
  the README, line 25, says that the token is rotated, and under it overlapping tabs
  sign each other out). `logout` needs a valid access token, is not repeated
  after a 401, and does not end that token; a refresh that overlaps it may bring
  the session back. `AdminRoute` does not remember the wanted page, and a login
  answered late re-routes whatever page is open.
- *Cart.* Two adds that overlap can lose one increment; a row may exceed the stock
  that is left by the time it is written: the README (line 27) says "limited by the
  current stock", and `CartWritesStand` says what the code keeps, a stock at some
  moment of the request. A product card says "Added" whatever the
  answer is, and the timer of an older note removes a newer one.
- *Products.* The form sends the stock it was opened with, and undoes the sales
  made since. A retry after a failed upload creates a second product; a late
  success closes whichever dialog is open; a replaced or refused image leaves its
  file behind; renaming a category does not invalidate the product queries.
- *Categories.* A category that is added while the first load of the page is under way
  and was served before is missing in the table until the next fetch: without data the
  invalidation joins that load (`unseen`).
- *Orders.* A late answer opens, or replaces, the dialog. When the administrator leaves
  the page, or the connection breaks, while the server works on a change, the next
  change overlaps it, and an order can be restocked twice, as in item 1 (`left`).
- *Checkout.* The page adds a shipping fee of 9.99 to totals up to 150 that
  `totalAmount` does not have. The success page confirms to anyone who opens it. A
  visitor who leaves while the answer is due, or whose connection breaks, can
  submit again. A fetch of the history that a checkout overtook passes for fresh if
  it is the first one, or if no page waits for it: the order is missing until the data
  are old (`unseen`).
- *Catalogue.* "Clear filters" keeps the prices and the page; the header's debounce
  can navigate back 300 ms after the visitor left; its field can disagree with the
  page's.
- *Reports.* Off UTC, the newest orders may be in no bucket (`salesByDay`). Where the
  clock changes back to UTC, or from ahead of it to behind, the UTC date of that night
  has no bucket wherever in the range it is: with `TZ=Europe/London`, on 1 November
  2025, thirty days have a bucket for 25 October and one for the 27th, and none for the
  26th (`Skipped`); where it changes the other way, two local dates share a bucket. A
  renamed product has two rows with one React key; revenue and count are two queries.
- *Export.* `csvEscape` does not look for a carriage return: a name that has one, and no
  comma, quote or line feed, is written without quotes and ends its row in the middle
  (`Portable`).
- *Requests.* `JwtAuthGuard` runs before `ThrottlerGuard`, so requests without a
  valid token are not counted.

## 7. Proofs

Every safety property of the passing runs is a theorem: it holds for every value of
the constants, that is for any number of customers, products, requests, tabs, orders,
clicks and characters, where the runs have two or three of each. TLAPS checks every step.

| module | theorems about | rests on |
|---|---|---|
| `Orders_proofs` | checkout, cancellation, stock edits, deletions; the refinement of `StockLedger` | `Sums_proofs` |
| `OrderPipeline_proofs` | the composition with the queue | `Orders_proofs` |
| `ProductCache_proofs` | the lists of the cache | - |
| `CustomerPages_proofs` | `Cart`, `OptimisticCart`, `CheckoutPages` | - |
| `Accounts_proofs` | `SignIn`, `HttpPipeline`, `Session` | - |
| `AdminPages_proofs` | `AdminOrders`, `AdminProducts`, `AdminCategories` | - |
| `Shop_proofs` | `ProductPage`, `CatalogSearch`, `Analytics`, `SalesCsv`; the types of all | the three before, `Sums_proofs` |
| `Sums_proofs` | lemmas only: sums over finite sets, and rounding down | - |

### Assumptions

The assumptions are named, stand where the constants are declared, and are
evaluated by the runs.

- `Orders`: product ids are naturals (`inventory.service.ts:19` sorts by id; only an
  order of them is used), quantities are positive and stock levels natural,
  checkouts and updates are different requests, every checkout has a customer.
- `OrderPipeline`: attempts, stalls and the bounds of failures are naturals.
- `ProductCache`: the writers are finitely many, and `Nothing` is neither a list nor
  a revision.
- `Shop`: the bounds of the model are naturals (`BoundsAssumption`); "none" is
  nobody's name (`NoneAssumption`); a visitor tries the passwords that `SignIn`
  tells apart; a cart request is of one kind, and quantities and stocks are natural;
  the products and the add clicks of a visit are finitely many, as are the requests
  in flight; an empty search field is allowed and the catalogue has a page; prices
  are whole cents; a day has an hour, and the two kinds of days of a zone are whole
  hours, less than a day, from UTC and from each other; the dashboard offers whole
  days; an administrator chooses among the five statuses; a request has a tab.

No assumption bounds a size. Two theorems have a hypothesis of their own:
`NoDeadlocks` that there is a greatest product id (`IdsBounded`: the table is
finite), and `TabsAreKept` that the cookie is sent to the refresh route
(`CookieIsSent`), which `OwnHostGetsCookie` shows of a base URL without a path and
which the default `/api` does not meet (section 6, item 6). Those of `Orders` that
need an account to wait for its answers say `ASSUME ~Overlap`; that they need it is
what the violation runs of section 6 show. In `Shop` the condition is part of the
property (`patient`, `~left`, `~unseen`, `Portable`).

### The arguments

Few of the properties are inductive. What each argument adds stands beside the
properties in the module (the definitions that begin with "Why"), and was an
invariant of a run before it was proved. In each proof there is one lemma for the
steps of a part, with one case per action.

**Checkout** (`SafetyInv`). That the stock covers a line when a checkout commits
follows from the lock it has held since the check: `LocksExclusive`, no row is
locked twice, so nobody else moved the row in between; `LocksAreLines`, a checkout
locks rows of its lines, and all of them when it commits; `OrdersAreCommitted` and
`UpdatesHaveOrders`, which phases imply that an order exists, so its lines never
change. For every `Overlap` and `Crashes`: `TypeCorrect`, `NeverOversold`,
`ReservationsHold`, `OrdersKeepTheirProducts`.

**Deadlock.** `LocksAscend`: a checkout has locked smaller ids than it is still to
lock, which is what the sort of the lines is for. In a circle, take the checkout that
waits for the greatest row of all that are waited for: who holds that row waits for a
greater one (`NoDeadlocks`).

**Status changes and carts**, under `~Overlap`. `ChangeInv`: at most one change of an
order is in flight, so what it read of the status still holds when it writes. `CartInv`:
at most one checkout of a customer is in flight; the cart of an open checkout is the one
it read, except for deleted products, whose rows it cannot be holding. They give
`UnitsComeBackOnce`, `FinalStatusesStay`, `OrdersTakeTheirCarts`, and together
`ShelfImplementsLedger`: a commit is a purchase of the abstract warehouse, a
cancellation a return, a stock edit a restatement, everything else stutters.

**The ledger adds up** (`LedgerBalances`). Each step of `StockLedger` moves units of one
order between its line and the shelf; `LedgerInv` has the sum over the orders that keep
their units. A sum is the library's fold over a set, a recursion through `CHOOSE`.
`Sums_proofs` shows that this recursion has a solution for a finite set, and by looking
at a smallest set for which a claim fails (finite sets are well-founded under inclusion)
that a sum does not depend on the order of its elements: it may be split (`SumUnion`),
taken element by element (`SumAdd`, `SumRemove`), part by part (`SumOfParts`) and over an
image (`SumImage`). This takes the place of an induction, which the provers cannot
instantiate.

**Queue.** Every step of the composition is a step of `Orders` or changes the queue only
(`PipelineImplementsOrders`), so `SafetyInv` holds of it too. `QueueInv`: a job exists
exactly for the checkouts that were answered, and a status has an author, who is the
checkout only while it is NEW and never once the job has written.

**Cache.** `CacheInv`: nothing is cached under a version not yet reached, so a bump starts
with an empty key; every cached list lies between what had settled under its version and
what Postgres holds; without crashes a row that has not settled has a writer that will
bump.

**Cart.** `ReadsAreCovered`: the stock that was read is at most the best of the request,
and covers what will be written. `OneAtATime`: while a patient customer's add is in
flight, nothing but the deletion of its product changes the row it has read.

**Cart page** (`QueryInv`). `Fresh`: with no mutation in flight, data that is valid, or an
answer under way, is the server's - every mutation that ends marks the query, and the
mark goes only with a fetch served after the last write. `OneClick`: a visitor who waits
has one click in flight and, since `onMutate` cancels, no fetch.

**Checkout page** (`CheckoutInv`). `OneCheckout`: a visitor who stays has one checkout in
flight, what it has read stays in the cart, and orders and rows together never exceed
what was filled; a product's price is among those quoted to a request since it arrived;
`Listed`: what the history misses is about to be answered, was lost, or was told to it
while it kept a fetch that had been served before (`unseen`).

**Sign-in.** A registration that created an account still owns it, since nothing
overwrites a row of a unique address; the form remembers the page that is wanted and
sends it along (`PageRemembers`).

**Sessions.** `Renewable`: until something else ends the session, whoever needs a refresh
finds a cookie and a hash that accept it, although refreshes of several tabs rotate the
pair under each other. `Alone` and `Final`: a patient browser does nothing else while it
logs out, and nothing of the old session is under way afterwards.

**Requests.** `Allowed`: what a request has passed when it stands at a guard. `Throttled`:
the handlers that ran, with the requests the throttler let through, are at most the hits
and one for each request in flight - a count over a finite set.

**Administrators.** `OneChange`: until a change is left alone, what is in flight is what
the page waits for, so the status that passed the check holds when the write comes.
`CreationsCounted`: a product that may still be created, by the save under way or by the
dialog that is shown, has its dialog, or a failure that had created one; `FormsBelong`:
the form that is shown and the one that is being saved are those of the product they are
for, which a new product becomes when it is created. `AnswersAreFresh`: what the table
shows, or is on its way to it, is as new as the last write it still waits to hear of,
unless such a write joined a first load that had been served (`unseen`).

**Product page** (`StepperInv`): timers are at most the adds that succeeded, and the
stepper stays below the highest stock that was shown.

**Reports.** `DailySalesAddUp`: midnights follow each other and stay within a day of those
of UTC (`Midnights`), so every hour has one local date, which is its UTC date or one
beside it (`LocalDates`), and the bucket of a local date is that date in UTC, or the one
before if the clock is ahead (`KeyOfMidnight`). So an order whose UTC date is no bucket
cannot lie before the first one, is of today's local date if it comes after the last,
and otherwise lies between a local date that begins ahead of UTC and one that does not
(`MissedOrders`). `ReportsAlwaysAgree`: orders divide the
items of all orders by their first component and rows by their group, so both sums are
the sum over the items (`RevenueOfItems`, `RevenueOfRows`); the export is followed order
by order (`ExportHasTheOrders`) through the recursion of `FlattenSeq`, with
`SetToSeq` listing each line once. For the top, `ReportsInv` adds that an item has the
name of its product unless that was renamed after a sale: then rows and products that
were sold correspond, and a product's row has what it earned (`RowsAreProducts`).

**Export** (`ExportIsReadBack`). `Reads(s, text, r)`: the reader, in state `s`, is in state
`r` after `text`; such passages compose (`ReadsBoth`). A quoted text brings the reader back
to where it was, with the text added (`QuotedIsRead`); an unquoted one that is `Portable`
has no quote, comma, line feed or carriage return, so the reader has it all (`HasRead`,
`CellIsRead`). A comma ends a cell (`CommaEndsCell`), a carriage return with its line feed
a line (`LineEndIsRead`). Texts and tables of any length are reached by
`SeqInduction`: a set of sequences that has the empty one, and with each all that are one
element longer, has all of them.

### Only model-checked

- Everything under fairness (`RequestsAnswered`, `OrdersGetProcessed`, `CachesConverge`,
  `CallsSettle`, `ConvergesToServer`, `SearchSettles`): liveness needs ENABLED, which is
  out of the prover's reach. Their safety halves are proved where they have one:
  `NoDeadlocks` for `RequestsAnswered`, and in `Session!TypeOK` that a call which waits
  has a refresh to wait for, for `CallsSettle`.
- The violations of section 6: one counterexample each is enough.

## 8. Abstractions, and what is not modelled

- Names, addresses, prices and totals are left out of `Orders`; prices and totals
  are in `CheckoutPages` and `Analytics`, names in `Analytics` and `SalesCsv`.
- Uncommitted writes are applied at the commit. At READ COMMITTED nobody can see
  them before, and the locks in `held` keep everyone else from the rows, so the
  values at the commit are those of the statements.
- `RejectLine` does not wait for a lock: a row whose committed version does not
  match the WHERE is skipped. A row that matches and is locked is waited for,
  and its condition is evaluated again, as Postgres does.
- The order of `restock` is nondeterministic: the items come without ORDER BY.
- `order.update` of a cancellation and its COMMIT are one step: the lock of the
  order row in between delays only other changes of the same order.
- A transaction may roll back at any point, which covers Prisma's timeout,
  a refused connection and the deadlock detector.
- A crash is of one request; several at once are several `Lose` and `Rollback`
  steps.
- In `ProductCache` a detail that was not found is not cached, as in the code;
  entries expire at any time after they were set. Tokens and the cookie expire at
  any time too.
- A request whose connection breaks was carried out by then or is not; that the
  server carries it out later is modelled where it matters, in `CheckoutPages` and
  `AdminOrders` (`Breaks`).
- The tables of the administrators' products are no variable: a row that is older
  than the database shows as a dialog that was opened when the row was fetched.
- Secrets, hashes and signatures are opaque; that bcrypt compares a prefix is not.
- External, modelled from how `src/` uses them: BullMQ, Postgres' locks and keys,
  the browser's cookie jar, TanStack Query, the throttler.

Not modelled: the wording of errors, sanitizing and configuration (stateless
translations); uploaded files (disk I/O); the seed, a script that
runs before the system; the schema beyond the keys, unique indexes and ON DELETE
rules that operations meet; the vendored UI kit, layout and charts, which have no
state of the shop.

## 9. Plan

Done: every component with state of its own has its module, and every safety property
of a passing run is proved. What would add most, in this order:

1. Refinement: the one-step cart of `Orders` as the abstract specification of
   `Cart` without overlaps, and `updateStatus` of `Orders` as that of
   `AdminOrders`, which would discharge the assumption `~Overlap` formally.
2. The safety half of `SearchSettles`: when no timer runs and nothing is on its way,
   fields, address and query agree.
