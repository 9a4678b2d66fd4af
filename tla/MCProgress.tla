----------------------------- MODULE MCProgress -----------------------------
(***************************************************************************)
(* Small instances for TLC of what has to happen in the end: requests that *)
(* are answered, calls that settle, pages that catch up.  The four systems *)
(* share no state: a behaviour belongs to one of them, chosen at its       *)
(* start, and they take turns in using the slots s1, s2, ... for their     *)
(* variables.                                                              *)
(***************************************************************************)
EXTENDS Integers, TLC

CONSTANTS u1, c1, c2, d1, t1, r1, r2, p1, p2, m1, m2, w1, w2, NoText

VARIABLES
    part,       \* the system that runs
    s1, s2, s3, s4, s5, s6, s7, s8, s9, s10, s11, s12, s13, s14, s15, s16, s17
                \* its variables; the others are 0

slots == <<part, s1, s2, s3, s4, s5, s6, s7, s8, s9, s10, s11, s12, s13, s14, s15, s16, s17>>

-----------------------------------------------------------------------------
\* One customer with two checkouts of two products, and a status change.
Counter == INSTANCE Orders WITH
    Users <- {u1}, Products <- {1, 2}, Checkouts <- {c1, c2}, Updates <- {d1},
    UserOf <- (c1 :> u1 @@ c2 :> u1), StockLevels <- {1}, CartQtys <- {1}, Overlap <- FALSE,
    Crashes <- FALSE, stock <- s1, catalog <- s2, cart <- s3, status <- s4, pc <- s5,
    lines <- s6, held <- s7, cleared <- s8, target <- s9, wanted <- s10, restocks <- s11,
    supply <- s12

\* Two requests of one tab.
Browser == INSTANCE Session WITH
    Tabs <- {t1}, Requests <- {r1, r2}, TabOf <- (r1 :> t1 @@ r2 :> t1), BaseUrl <- <<>>,
    MaxTokens <- 1, Disturbances <- TRUE, issued <- s1, expired <- s2, hash <- s3,
    jar <- s4, store <- s5, login <- s6, logout <- s7, refresh <- s8, ticket <- s9,
    badge <- s10, pass <- s11, pc <- s12, carries <- s13, sends <- s14, signedOut <- s15,
    patient <- s16, disturbed <- s17

\* Two clicks that overlap, a lost answer, and a visitor who comes back to the window.
CartPage == INSTANCE OptimisticCart WITH
    Products <- {p1, p2}, Clicks <- {m1, m2}, Stock <- 2, MaxFailures <- 1, server <- s1,
    cache <- s2, invalid <- s3, fetch <- s4, got <- s5, tries <- s6, call <- s7, op <- s8,
    previous <- s9, patient <- s10, failures <- s11

\* Two words to search for, and four inputs of the visitor.
Catalog == INSTANCE CatalogSearch WITH
    Words <- {NoText, w1, w2}, NoText <- NoText, Pages <- 2, MaxInputs <- 4, q <- s1,
    debouncedQ <- s2, path <- s3, url <- s4, nav <- s5, search <- s6, debouncedSearch <- s7,
    category <- s8, price <- s9, debouncedPrice <- s10, page <- s11, shown <- s12,
    inputs <- s13

-----------------------------------------------------------------------------
\* The slots behind the k-th are empty, and stay so.
Empty16 == s17 = 0
Empty15 == s16 = 0 /\ Empty16
Empty14 == s15 = 0 /\ Empty15
Empty13 == s14 = 0 /\ Empty14
Empty12 == s13 = 0 /\ Empty13
Empty11 == s12 = 0 /\ Empty12

Init ==
    \/ part = "orders" /\ Counter!Init /\ Empty12
    \/ part = "session" /\ Browser!Init
    \/ part = "cart page" /\ CartPage!Init /\ Empty11
    \/ part = "catalog" /\ Catalog!Init /\ Empty13

Next ==
    /\ UNCHANGED part
    /\ \/ part = "orders" /\ Counter!Next
          /\ UNCHANGED <<s13, s14, s15, s16, s17>>
       \/ part = "session" /\ Browser!Next
       \/ part = "cart page" /\ CartPage!Next
          /\ UNCHANGED <<s12, s13, s14, s15, s16, s17>>
       \/ part = "catalog" /\ Catalog!Next
          /\ UNCHANGED <<s14, s15, s16, s17>>

Spec == Init /\ [][Next]_slots

-----------------------------------------------------------------------------
(* Fairness, of the part that runs: that of Orders.tla, Session.tla,       *)
(* OptimisticCart.tla and CatalogSearch.tla.                               *)

InCounter(A) == part = "orders" /\ A /\ UNCHANGED <<part, s13, s14, s15, s16, s17>>
InBrowser(A) == part = "session" /\ A /\ UNCHANGED part
InCartPage(A) == part = "cart page" /\ A /\ UNCHANGED <<part, s12, s13, s14, s15, s16, s17>>
InCatalog(A) == part = "catalog" /\ A /\ UNCHANGED <<part, s14, s15, s16, s17>>

FairSpec ==
    /\ Spec
    /\ \A c \in {c1, c2} : WF_slots(InCounter(Counter!ServeCheckout(c)))
    /\ WF_slots(InCounter(Counter!ServeUpdate(d1)))
    /\ \A r \in {c1, c2, d1} : WF_slots(InCounter(Counter!DeadlockVictim(r)))
    /\ WF_slots(InBrowser(Browser!RefreshStep(t1)))
    /\ \A r \in {r1, r2} : WF_slots(InBrowser(Browser!RequestStep(r)))
    /\ WF_slots(InCartPage(CartPage!Fetching))
    /\ \A m \in {m1, m2} : WF_slots(InCartPage(CartPage!Answering(m)))
    /\ WF_slots(InCatalog(Catalog!Debounce)) /\ WF_slots(InCatalog(Catalog!DebouncePrice))
    /\ WF_slots(InCatalog(Catalog!HeaderDebounce)) /\ WF_slots(InCatalog(Catalog!Arrive))
    /\ WF_slots(InCatalog(Catalog!FetchAnswered))

-----------------------------------------------------------------------------
(* Properties *)

\* orders.service.ts:48-109, 133-168.  Every checkout and status change that was
\* started is answered, although transactions wait for each other's rows.
RequestsAnswered ==
    \A r \in {c1, c2, d1} :
        part = "orders" /\ Counter!InFlight(r) ~> (part = "orders" => ~Counter!InFlight(r))

\* client.ts:43-64.  Every call of the API is answered or rejected: nobody waits
\* for ever for a refresh, whatever tokens expire and answers get lost.
CallsSettle ==
    \A r \in {r1, r2} :
        part = "session" /\ Browser!Pending(r) ~> (part = "session" => ~Browser!Pending(r))

\* useCart.ts:28-39.  Answers arrive and at most one fails: the page comes to show
\* the server's cart and stays with it, without the visitor doing anything.
ConvergesToServer == <>[](part = "cart page" => CartPage!ShowsServer)

\* CatalogPage.tsx:45-60, CustomerHeader.tsx:18-25.  The search fields, the address
\* and the debounced values never pull at each other for ever: once the visitor
\* stops, the products shown are those that the page asks for.
SearchSettles == <>[](part = "catalog" => Catalog!ShowsWhatIsAsked)
=============================================================================
