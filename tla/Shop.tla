-------------------------------- MODULE Shop --------------------------------
(***************************************************************************)
(* The parts of the shop that do not share state with the orders: the      *)
(* cart, sessions, sign-in, the pages of customers and administrators,     *)
(* reports and the request pipeline.  Nor do they share any with each      *)
(* other, so a behaviour belongs to one of them, chosen at its start, and  *)
(* the parts take turns in using the slots s1, s2, ... for their           *)
(* variables.                                                              *)
(***************************************************************************)
EXTENDS Integers, FiniteSets

CONSTANTS
    CartProducts, Adds, Updates, Removals, Amounts, StockLevels,        \* cart
    Tabs, Requests, TabOf, BaseUrl, MaxTokens, Disturbances,            \* session
    Emails, Admins, Attempts, PasswordTexts, Rivals,                    \* sign in
    Products, Clicks, Stock, MaxCartFailures,                           \* cart page
    MaxStock, MaxClicks,                                                \* product page
    Prices, MaxFills, MaxChanges,                                       \* checkout
    Words, NoText, Pages, MaxInputs,                                    \* catalog
    OnSale, MaxCreated, MaxShelf, MaxOpened,                            \* products
    Categories, Names,                                                  \* categories
    OrderIds, Choices,                                                  \* status
    Price, Qtys, Zones, DayLength, DayRanges, TopLimit,               \* reports
    MaxHours, MaxOrders,
    MaxLines, MaxChars,                                                 \* export
    Slots, Routes, GlobalLimit, LoginLimit,                             \* requests
    MaxFailures     \* lost or failing calls of every page but the cart's

ASSUME BoundsAssumption ==
    {MaxTokens, MaxFailures, MaxCartFailures, Stock, MaxStock, OnSale, MaxCreated, MaxShelf,
     MaxFills, MaxChanges, MaxClicks, MaxHours, MaxLines, MaxChars} \subseteq Nat

\* "none" is what the pages show, or wait for, when it is nothing.
ASSUME NoneAssumption == "none" \notin OrderIds \cup Requests \cup Attempts \cup Emails

\* The visitor tries what SignIn.tla tells apart.
ASSUME PasswordsAssumption == PasswordTexts \subseteq {"short", "mine", "theirs", "over72"}

\* A request to the cart is of one kind, and quantities are natural.
ASSUME CartAssumption ==
    /\ Amounts \cup StockLevels \subseteq Nat
    /\ Adds \cap Updates = {} /\ Adds \cap Removals = {} /\ Updates \cap Removals = {}

\* A shop has finitely many products, and those in a cart are in stock.
ASSUME ProductsAssumption ==
    IsFiniteSet(CartProducts) /\ IsFiniteSet(Products) /\ Stock >= 1

\* A visit has finitely many clicks on "Add to cart"; a search field may be empty;
\* the catalogue has a page.
ASSUME VisitAssumption == IsFiniteSet(Adds) /\ NoText \in Words /\ Pages \in Nat \ {0}

\* Prices are in cents, and the dashboard offers whole days.
ASSUME ReportsAssumption ==
    /\ Price \in [Products -> Nat] /\ Qtys \subseteq Nat
    /\ DayLength \in Nat \ {0} /\ DayRanges \subseteq Nat /\ TopLimit \in Nat

\* A time zone is less than a day ahead of UTC, or behind, on each of its two kinds
\* of days, which differ by less than a day too.
ASSUME ZonesAssumption ==
    LET hours == -(DayLength - 1) .. DayLength - 1 IN
    /\ Zones \subseteq [standard : hours, summer : hours, summerDays : SUBSET Int]
    /\ \A z \in Zones : z.summer - z.standard \in hours

\* An order has one of five statuses.
ASSUME ChoicesAssumption ==
    Choices \subseteq {"NEW", "PROCESSING", "SHIPPED", "COMPLETED", "CANCELLED"}

\* Every request is sent by a tab.
ASSUME TabOfAssumption == TabOf \in [Requests -> Tabs]

\* The requests of an address that are in flight can be counted, and so can those
\* that the throttler lets through.
ASSUME SlotsAssumption == IsFiniteSet(Slots) /\ {GlobalLimit, LoginLimit} \subseteq Nat

VARIABLES
    part,       \* the system that runs
    s1, s2, s3, s4, s5, s6, s7, s8, s9, s10, s11, s12, s13, s14, s15, s16, s17, s18, s19
                \* its variables; the others are 0

slots == <<part, s1, s2, s3, s4, s5, s6, s7, s8, s9, s10, s11, s12, s13, s14, s15, s16, s17,
         s18, s19>>

-----------------------------------------------------------------------------
\* CartService, serving one customer who waits for answers, or does not.
Basket == INSTANCE Cart WITH
    Products <- CartProducts, catalog <- s1, stock <- s2, row <- s3, pc <- s4, item <- s5,
    qty <- s6, read <- s7, desired <- s8, patient <- s9, best <- s10

\* The tabs of a browser.
Browser == INSTANCE Session WITH
    issued <- s1, expired <- s2, hash <- s3, jar <- s4, store <- s5, login <- s6,
    logout <- s7, refresh <- s8, ticket <- s9, badge <- s10, pass <- s11, pc <- s12,
    carries <- s13, sends <- s14, signedOut <- s15, patient <- s16, disturbed <- s17

\* A visitor, and others who register the same address.
Visitor == INSTANCE SignIn WITH
    path <- s1, from <- s2, mode <- s3, form <- s4, owner <- s5, call <- s6, sent <- s7,
    accounts <- s8, user <- s9, wanted <- s10

\* The cart page, of a visitor who waits for answers, or does not.
CartPage == INSTANCE OptimisticCart WITH
    MaxFailures <- MaxCartFailures, server <- s1, cache <- s2, invalid <- s3, fetch <- s4,
    got <- s5, tries <- s6, call <- s7, op <- s8, previous <- s9, patient <- s10,
    failures <- s11

\* A product whose stock moves.
Detail == INSTANCE ProductPage WITH
    view <- s1, stock <- s2, qty <- s3, signedIn <- s4, call <- s5, asked <- s6,
    latest <- s7, added <- s8, timers <- s9, noted <- s10, cardTimers <- s11, peak <- s12

\* The checkout page and the profile.
Checkout == INSTANCE CheckoutPages WITH
    Products <- CartProducts, cart <- s1, price <- s2, orders <- s3, page <- s4, form <- s5,
    listed <- s6, request <- s7, quoted <- s8, pending <- s9, confirmed <- s10,
    history <- s11, stale <- s12, fetch <- s13, got <- s14, left <- s15, unseen <- s16,
    fills <- s17, changes <- s18, failures <- s19

\* The catalogue with its search fields.
Catalog == INSTANCE CatalogSearch WITH
    q <- s1, debouncedQ <- s2, path <- s3, url <- s4, nav <- s5, search <- s6,
    debouncedSearch <- s7, category <- s8, price <- s9, debouncedPrice <- s10, page <- s11,
    shown <- s12, inputs <- s13

\* The administrator's products.
ProductDialog == INSTANCE AdminProducts WITH
    MaxStock <- MaxShelf, db <- s1, dialog <- s2, save <- s3, deletes <- s4, opened <- s5,
    created <- s6, failures <- s7, retries <- s8

\* The administrator's categories.
CategoryTable == INSTANCE AdminCategories WITH
    db <- s1, filed <- s2, list <- s3, fetch <- s4, got <- s5, dialog <- s6, save <- s7,
    deletes <- s8, unseen <- s9, failures <- s10, loaded <- s11

\* The administrator's orders.
Status == INSTANCE AdminOrders WITH
    status <- s1, restocked <- s2, mounted <- s3, filter <- s4, table <- s5, selected <- s6,
    request <- s7, pending <- s8, failures <- s9, left <- s10

\* The reports.
Reports == INSTANCE Analytics WITH
    clock <- s1, zone <- s2, name <- s3, orders <- s4, renamed <- s5

\* The export of a report.
Export == INSTANCE SalesCsv WITH
    table <- s1, typed <- s2

\* The request pipeline.
Pipeline == INSTANCE HttpPipeline WITH
    request <- s1, answer <- s2, hits <- s3, ran <- s4, effects <- s5

-----------------------------------------------------------------------------
\* The slots behind the k-th are empty, and stay so.
Empty18 == s19 = 0
Empty17 == s18 = 0 /\ Empty18
Empty16 == s17 = 0 /\ Empty17
Empty15 == s16 = 0 /\ Empty16
Empty14 == s15 = 0 /\ Empty15
Empty13 == s14 = 0 /\ Empty14
Empty12 == s13 = 0 /\ Empty13
Empty11 == s12 = 0 /\ Empty12
Empty10 == s11 = 0 /\ Empty11
Empty9 == s10 = 0 /\ Empty10
Empty8 == s9 = 0 /\ Empty9
Empty7 == s8 = 0 /\ Empty8
Empty6 == s7 = 0 /\ Empty7
Empty5 == s6 = 0 /\ Empty6
Empty4 == s5 = 0 /\ Empty5
Empty3 == s4 = 0 /\ Empty4
Empty2 == s3 = 0 /\ Empty3

Init ==
    \/ part = "cart" /\ Basket!Init /\ Empty10
    \/ part = "session" /\ Browser!Init /\ Empty17
    \/ part = "sign in" /\ Visitor!Init /\ Empty10
    \/ part = "cart page" /\ CartPage!Init /\ Empty11
    \/ part = "product page" /\ Detail!Init /\ Empty12
    \/ part = "checkout" /\ Checkout!Init
    \/ part = "catalog" /\ Catalog!Init /\ Empty13
    \/ part = "products" /\ ProductDialog!Init /\ Empty8
    \/ part = "categories" /\ CategoryTable!Init /\ Empty11
    \/ part = "status" /\ Status!Init /\ Empty10
    \/ part = "reports" /\ Reports!Init /\ Empty5
    \/ part = "export" /\ Export!Init /\ Empty2
    \/ part = "requests" /\ Pipeline!Init /\ Empty5

Next ==
    /\ UNCHANGED part
    /\ \/ part = "cart" /\ Basket!Next
          /\ UNCHANGED <<s11, s12, s13, s14, s15, s16, s17, s18, s19>>
       \/ part = "session" /\ Browser!Next
          /\ UNCHANGED <<s18, s19>>
       \/ part = "sign in" /\ Visitor!Next
          /\ UNCHANGED <<s11, s12, s13, s14, s15, s16, s17, s18, s19>>
       \/ part = "cart page" /\ CartPage!Next
          /\ UNCHANGED <<s12, s13, s14, s15, s16, s17, s18, s19>>
       \/ part = "product page" /\ Detail!Next
          /\ UNCHANGED <<s13, s14, s15, s16, s17, s18, s19>>
       \/ part = "checkout" /\ Checkout!Next
       \/ part = "catalog" /\ Catalog!Next
          /\ UNCHANGED <<s14, s15, s16, s17, s18, s19>>
       \/ part = "products" /\ ProductDialog!Next
          /\ UNCHANGED <<s9, s10, s11, s12, s13, s14, s15, s16, s17, s18, s19>>
       \/ part = "categories" /\ CategoryTable!Next
          /\ UNCHANGED <<s12, s13, s14, s15, s16, s17, s18, s19>>
       \/ part = "status" /\ Status!Next
          /\ UNCHANGED <<s11, s12, s13, s14, s15, s16, s17, s18, s19>>
       \/ part = "reports" /\ Reports!Next
          /\ UNCHANGED <<s6, s7, s8, s9, s10, s11, s12, s13, s14, s15, s16, s17, s18, s19>>
       \/ part = "export" /\ Export!Next
          /\ UNCHANGED <<s3, s4, s5, s6, s7, s8, s9, s10, s11, s12, s13, s14, s15, s16, s17, s18,
                          s19>>
       \/ part = "requests" /\ Pipeline!Next
          /\ UNCHANGED <<s6, s7, s8, s9, s10, s11, s12, s13, s14, s15, s16, s17, s18, s19>>

Spec == Init /\ [][Next]_slots

-----------------------------------------------------------------------------
(* Properties *)

\* The type invariant of whichever part runs; what else it says is told in the
\* part's module.
TypesOK ==
    /\ part = "cart" => Basket!TypeOK
    /\ part = "session" => Browser!TypeOK
    /\ part = "sign in" => Visitor!TypeOK
    /\ part = "cart page" => CartPage!TypeOK
    /\ part = "product page" => Detail!TypeOK
    /\ part = "checkout" => Checkout!TypeOK
    /\ part = "catalog" => Catalog!TypeOK
    /\ part = "products" => ProductDialog!TypeOK
    /\ part = "categories" => CategoryTable!TypeOK
    /\ part = "status" => Status!TypeOK
    /\ part = "reports" => Reports!TypeOK
    /\ part = "export" => Export!TypeOK
    /\ part = "requests" => Pipeline!TypeOK

\* cart.service.ts:12-37.  However stocks move and requests of one customer
\* overlap, a quantity that a request writes was in stock at some moment of the
\* request; and an add of a customer who waits for answers goes on top of what
\* the row held.
CartWritesStand ==
    [][part = "cart" => Basket!WritesWhatWasInStock /\ Basket!AddAddsItsQuantity]_slots

\* auth.service.ts:42-52, client.ts:31-64.  Until a logout, the expiry of the
\* cookie or a lost answer, a tab that is signed in stays so, although access
\* tokens expire and several tabs refresh at once.
TabsStaySignedIn ==
    [][part = "session" => Browser!TabsEndNoSession]_slots

\* auth.service.ts:54-56.  A logout that overlaps no other call ends the session
\* of every tab until somebody logs in.
LogoutIsFinal == part = "session" => Browser!LogoutIsFinal

\* auth.service.ts:23-28.  Of all registrations of one address that race, one
\* creates the account, and its password is the one that signs in afterwards.
RegistrationsStand == part = "sign in" => Visitor!RegistrationsStand

\* AuthPage.tsx:39-43.  Whoever was sent to the form by a protected page, and
\* signs in there, gets to that page.
ReturnsToWantedPage == [][part = "sign in" => Visitor!WelcomedWhereWanted]_slots

\* useCart.ts:28-39.  When nothing is in flight or marked for a refetch, the page
\* shows the server's cart, however mutations overlapped, failed, or rolled back.
SettledShowsServer == part = "cart page" => CartPage!SettledShowsServer

\* useCart.ts:28.  While a click of a visitor who waits is not answered, no
\* answer of an older fetch puts the old quantity back.
NoFlicker == [][part = "cart page" => CartPage!NoFlicker]_slots

\* CheckoutPage.tsx:54-64, orders.service.ts:48-60.  A visitor who waits on the
\* page buys a cart once, also after a lost answer; and an order costs what its
\* products cost at some moment of the request.
BoughtOnceAsListed == part = "checkout" => Checkout!BoughtOnce /\ Checkout!ChargedAsListed

\* useOrders.ts:5, 28.  The profile that has fetched shows every order that its
\* query was told of, also one whose page was left before the answer came - unless
\* the query was told while it kept a fetch that the server had answered before.
HistoryComplete == part = "checkout" => Checkout!HistoryComplete

\* AdminProductsPage.tsx:99-126.  A dialog creates one product, and one more for
\* every save that failed after its product was created; what was typed, and the
\* file that was chosen, in a dialog end at its product.
SavesGoWhereMeant ==
    part = "products" => ProductDialog!OneProductPerDialog /\ ProductDialog!RowsBelong

\* useCategories.ts:5, 8-31.  When nothing is under way the table shows the database,
\* however deletes and saves overlapped and dropped each other's fetches - unless a
\* save was told to a first load that the server had answered before.
TableShowsDatabase == part = "categories" => CategoryTable!TableShowsDatabase

\* AdminOrdersPage.tsx:143, orders.service.ts:137.  However dialogs are closed and
\* opened while answers are due, an order is cancelled, and restocked, once, as long
\* as no change that the server is working on is left alone.
CancelledOnce == part = "status" => Status!CancelledOnce

\* analytics.service.ts:78-105.  An order of the last days is in one bucket, or it
\* is one of today's, or of the UTC date that a change of the clock leaves out.
DaysAddUp == part = "reports" => Reports!DaysAddUp

\* analytics.service.ts:25-76, 107-150.  The summary, the groups of the products
\* and the export are about the same orders and the same money, and the top has
\* those that earned most.
ReportsAgree == part = "reports" => Reports!ReportsAgree /\ Reports!TopProductsLead

\* analytics.service.ts:8-11, 130-150.  A spreadsheet reads from the export the
\* cells that went into it.
CsvRoundTrip == part = "export" => Export!CsvRoundTrip

\* app.module.ts:24, 39-42, http-exception.filter.ts:40-64.  What is refused has
\* changed nothing, what changed something was allowed to, and a route's limit
\* holds when requests come in at once.
RefusalsAreClean == part = "requests" => Pipeline!RefusalsAreClean
=============================================================================
