--------------------------- MODULE CheckoutPages ---------------------------
(***************************************************************************)
(* Buying: the form of CheckoutPage, the order it places, SuccessPage and  *)
(* the order history of ProfilePage (the query "orders"), for one visitor. *)
(* The visitor may leave with the answer due, any answer may be lost, the  *)
(* cart is filled from other pages and tabs, and prices change.            *)
(***************************************************************************)
EXTENDS Integers, Sequences, FiniteSetsExt

CONSTANTS
    Products,
    Prices,         \* of products
    Requests,       \* checkouts
    MaxFills,       \* bound on the times something is put into the cart
    MaxChanges,     \* bound on the changes of prices
    MaxFailures     \* bound on the lost answers and failing fetches

VARIABLES
    cart,       \* cart[p]: CartItem.qty
    price,      \* price[p]: Product.price
    orders,     \* the orders, oldest first
    page,       \* checkout, success, profile, or other
    form,       \* the form: incomplete, malformed, or valid
    listed,     \* the rows that the page's cart query has
    request,    \* request[r]: phase and lines of a checkout
    quoted,     \* history: quoted[r][p], prices of p since r arrived
    pending,    \* the request that the mounted page waits for, or NoRequest
    confirmed,  \* location.state.orderId, 0 for none
    history,    \* how many orders the data of the query has, or Missing
    stale,      \* is the query invalidated, or its staleTime over?
    fetch, got, \* its fetch, and the orders it was answered with
    left,       \* history: did the visitor, or the connection, leave a checkout alone?
    unseen,     \* history: was an order placed that the query was not told of, or only
                \* while it kept a fetch that was answered before?
    fills, changes, failures

shopVars == <<cart, price, orders>>
pageVars == <<page, form, listed, pending, confirmed, left>>
queryVars == <<history, stale, fetch, got, unseen>>
requestVars == <<request, quoted>>
boundVars == <<fills, changes, failures>>
vars == <<shopVars, pageVars, queryVars, requestVars, boundVars>>

NoRequest == "none"
Missing == -1
NoLines == [p \in Products |-> [qty |-> 0, price |-> 0]]
Idle == [phase |-> "idle", lines |-> NoLines]
Rows == {p \in Products : cart[p] > 0}

Init ==
    /\ cart = [p \in Products |-> 0] /\ price \in [Products -> Prices]
    /\ orders = <<>>
    /\ page = "other" /\ form = "incomplete" /\ listed = {}
    /\ pending = NoRequest /\ confirmed = 0
    /\ request = [r \in Requests |-> Idle]
    /\ quoted = [r \in Requests |-> [p \in Products |-> {}]]
    /\ history = Missing /\ stale = TRUE /\ fetch = "none" /\ got = 0
    /\ left = FALSE /\ unseen = FALSE
    /\ fills = 0 /\ changes = 0 /\ failures = 0

-----------------------------------------------------------------------------
(* The pages *)

\* CheckoutPage has a form while the cart it knows has rows.
\* Mutant of Controls: "Place order" does not look at isPending.
ControlsAlways == IF page = "checkout" /\ listed # {} THEN {"type", "submit"} ELSE {}
Controls ==
    IF page # "checkout" \/ listed = {} THEN {}
    ELSE {"type"} \cup (IF pending = NoRequest THEN {"submit"} ELSE {})

\* A page that is opened starts anew; the history is fetched when its data is
\* stale.
Visit(p) ==
    /\ p # page
    /\ page' = p /\ form' = "incomplete" /\ pending' = NoRequest /\ confirmed' = 0
    /\ left' = (left \/ pending # NoRequest)
    /\ IF p = "profile" /\ stale /\ fetch = "none"
          THEN fetch' = "sent" ELSE UNCHANGED fetch
    /\ UNCHANGED <<shopVars, listed, requestVars, history, stale, got, unseen, boundVars>>

\* The query "cart" is answered (OptimisticCart.tla has its details).
CartFetched ==
    /\ listed # Rows
    /\ listed' = Rows
    /\ UNCHANGED <<shopVars, page, form, pending, confirmed, left, queryVars, requestVars, boundVars>>

\* What the masks let through is incomplete, refused only by the server's
\* stricter rules, or valid.
Type(f) ==
    /\ "type" \in Controls /\ form # f
    /\ form' = f
    /\ UNCHANGED <<shopVars, page, listed, pending, confirmed, left, queryVars, requestVars, boundVars>>

\* CheckoutDto.
WellFormed(f) == f = "valid"

\* handleSubmit: validate stops an incomplete form.
Submit(r) ==
    /\ "submit" \in Controls /\ form # "incomplete"
    /\ request[r] = Idle /\ quoted[r] = [p \in Products |-> {}]
    /\ request' = [request EXCEPT ![r].phase = IF WellFormed(form) THEN "sent" ELSE "refused"]
    /\ quoted' = [quoted EXCEPT ![r] = [p \in Products |-> {price[p]}]]
    /\ pending' = r
    /\ UNCHANGED <<shopVars, page, form, listed, confirmed, left, queryVars, boundVars>>

-----------------------------------------------------------------------------
(* OrdersService.checkout: the read, then the transaction (Orders.tla has  *)
(* its statements).                                                        *)

ReadCart(r) ==
    /\ request[r].phase = "sent"
    /\ request' = [request EXCEPT ![r] =
          IF Rows = {} THEN [@ EXCEPT !.phase = "refused"]
          ELSE [phase |-> "read",
                lines |-> [p \in Products |-> [qty |-> cart[p], price |-> price[p]]]]]
    /\ UNCHANGED <<shopVars, pageVars, queryVars, quoted, boundVars>>

LinesSum(qty(_), cost(_)) == MapThenSumSet(LAMBDA p : qty(p) * cost(p), Products)

\* Mutant of TotalAmount: the prices of the products as they are now.
TotalAmountNow(lines) == LinesSum(LAMBDA p : lines[p].qty, LAMBDA p : price[p])
TotalAmount(lines) == LinesSum(LAMBDA p : lines[p].qty, LAMBDA p : lines[p].price)

PlaceOrder(r) ==
    LET lines == request[r].lines
        alone == request[r].phase = "alone" IN
    /\ request[r].phase \in {"read", "alone"}
    /\ orders' = Append(orders, [lines |-> lines, total |-> TotalAmount(lines), quotes |-> quoted[r]])
    /\ cart' = [p \in Products |-> IF lines[p].qty > 0 THEN 0 ELSE cart[p]]
    /\ request' = [request EXCEPT ![r] = IF alone THEN Idle ELSE [@ EXCEPT !.phase = "served"]]
    /\ unseen' = (unseen \/ alone)
    /\ UNCHANGED <<price, pageVars, history, stale, fetch, got, quoted, boundVars>>

\* A line that is not in stock any more: the transaction is rolled back.
Reject(r) ==
    /\ request[r].phase \in {"read", "alone"}
    /\ request' = [request EXCEPT ![r] = IF @.phase = "alone" THEN Idle ELSE [@ EXCEPT !.phase = "refused"]]
    /\ UNCHANGED <<shopVars, pageVars, queryVars, quoted, boundVars>>

-----------------------------------------------------------------------------
(* The answer *)

Answered(r) ==
    /\ request' = [request EXCEPT ![r] = Idle]
    /\ UNCHANGED <<shopVars, quoted, fills, changes>>

\* Mutant of Invalidate: useCheckout forgets the orders.
InvalidateNothing == UNCHANGED <<stale, fetch, got, unseen>>
\* invalidateQueries: on the page that shows the orders a query that has data
\* drops the fetch under way for a new one.  Without data it joins that fetch, and
\* without the page the fetch goes on: what the server has answered to it by then
\* will pass for the newest data.
Invalidate ==
    /\ stale' = TRUE
    /\ IF page = "profile" /\ (history # Missing \/ fetch = "none")
          THEN fetch' = "sent" /\ got' = 0 /\ UNCHANGED unseen
          ELSE unseen' = (unseen \/ fetch = "answered") /\ UNCHANGED <<fetch, got>>

\* useCheckout invalidates in any case; only a page that is still there moves
\* on to the success page.
Succeeds(r) ==
    /\ request[r].phase = "served"
    /\ Answered(r) /\ Invalidate
    /\ IF pending = r
          THEN page' = "success" /\ confirmed' = Len(orders) /\ form' = "incomplete"
               /\ pending' = NoRequest
          ELSE UNCHANGED <<page, confirmed, form, pending>>
    /\ UNCHANGED <<listed, left, history, failures>>

\* A toast; the form stays.
Toast(r) == pending' = IF pending = r THEN NoRequest ELSE pending

Refused(r) ==
    /\ request[r].phase = "refused"
    /\ Answered(r) /\ Toast(r)
    /\ UNCHANGED <<page, form, listed, confirmed, left, queryVars, failures>>

Lost(r) ==
    /\ request[r].phase \in {"sent", "served"} /\ failures < MaxFailures
    /\ failures' = failures + 1
    /\ Answered(r) /\ Toast(r)
    /\ unseen' = (unseen \/ request[r].phase = "served")
    /\ UNCHANGED <<page, form, listed, confirmed, left, history, stale, fetch, got>>

\* The connection breaks while the server works: a toast, but the checkout
\* goes on alone.
Breaks(r) ==
    /\ request[r].phase = "read" /\ failures < MaxFailures
    /\ failures' = failures + 1
    /\ request' = [request EXCEPT ![r].phase = "alone"]
    /\ Toast(r)
    /\ left' = TRUE
    /\ UNCHANGED <<shopVars, page, form, listed, confirmed, queryVars, quoted, fills, changes>>

-----------------------------------------------------------------------------
(* The query "orders" *)

HistoryServed ==
    /\ fetch = "sent"
    /\ fetch' = "answered" /\ got' = Len(orders) /\ unseen' = FALSE
    /\ UNCHANGED <<shopVars, pageVars, history, stale, requestVars, boundVars>>

HistoryAnswered ==
    /\ fetch = "answered"
    /\ fetch' = "none" /\ history' = got /\ got' = 0 /\ stale' = FALSE
    /\ UNCHANGED <<shopVars, pageVars, unseen, requestVars, boundVars>>

HistoryFails ==
    /\ fetch # "none" /\ failures < MaxFailures
    /\ failures' = failures + 1
    /\ fetch' = "none" /\ got' = 0
    /\ UNCHANGED <<shopVars, pageVars, history, stale, unseen, requestVars, fills, changes>>

\* staleTime passes.
HistoryAges ==
    /\ ~stale /\ fetch = "none"
    /\ stale' = TRUE
    /\ UNCHANGED <<shopVars, pageVars, history, fetch, got, unseen, requestVars, boundVars>>

\* gcTime passes while no page shows the orders.
HistoryDropped ==
    /\ page # "profile" /\ fetch = "none" /\ history # Missing
    /\ history' = Missing /\ stale' = TRUE
    /\ UNCHANGED <<shopVars, pageVars, fetch, got, unseen, requestVars, boundVars>>

\* What the profile lists, newest first, each with its dialog.
OrderHistory == IF page = "profile" /\ history # Missing THEN history ELSE 0

-----------------------------------------------------------------------------
(* The rest of the shop *)

Fill(p) ==
    /\ fills < MaxFills
    /\ fills' = fills + 1
    /\ cart' = [cart EXCEPT ![p] = @ + 1]
    /\ UNCHANGED <<price, orders, pageVars, queryVars, requestVars, changes, failures>>

ChangePrice(p, n) ==
    /\ n # price[p] /\ changes < MaxChanges
    /\ changes' = changes + 1
    /\ price' = [price EXCEPT ![p] = n]
    /\ quoted' = [r \in Requests |->
                     IF request[r] = Idle THEN quoted[r] ELSE [quoted[r] EXCEPT ![p] = @ \cup {n}]]
    /\ UNCHANGED <<cart, orders, pageVars, queryVars, request, fills, failures>>

-----------------------------------------------------------------------------
Next ==
    \/ \E p \in {"checkout", "profile", "other"} : Visit(p)
    \/ CartFetched \/ HistoryServed \/ HistoryAnswered \/ HistoryFails
    \/ HistoryAges \/ HistoryDropped
    \/ \E f \in {"incomplete", "malformed", "valid"} : Type(f)
    \/ \E r \in Requests :
          \/ Submit(r) \/ ReadCart(r) \/ PlaceOrder(r) \/ Reject(r)
          \/ Succeeds(r) \/ Refused(r) \/ Lost(r) \/ Breaks(r)
    \/ \E p \in Products : Fill(p) \/ \E n \in Prices : ChangePrice(p, n)

Spec == Init /\ [][Next]_vars

-----------------------------------------------------------------------------
(* Properties *)

Phases == {"idle", "sent", "read", "alone", "served", "refused"}
Lines == [Products -> [qty : Nat, price : Prices \cup {0}]]

IsSequence(s) == s \in Seq({s[i] : i \in DOMAIN s})

\* Types; and the answer that the mounted page waits for will come.
ShopTypes ==
    /\ cart \in [Products -> 0 .. fills] /\ price \in [Products -> Prices]
    /\ IsSequence(orders)
    /\ fills \in 0 .. MaxFills /\ changes \in 0 .. MaxChanges /\ failures \in 0 .. MaxFailures
RequestTypes ==
    /\ request \in [Requests -> [phase : Phases, lines : Lines]]
    /\ quoted \in [Requests -> [Products -> SUBSET Prices]]
    /\ pending \in {NoRequest} \cup Requests
    /\ pending # NoRequest =>
          page = "checkout" /\ request[pending].phase \notin {"idle", "alone"}
PageTypes ==
    /\ page \in {"checkout", "success", "profile", "other"}
    /\ form \in {"incomplete", "malformed", "valid"} /\ listed \subseteq Products
    /\ confirmed \in 0 .. Len(orders) /\ left \in BOOLEAN
QueryTypes ==
    /\ history \in {Missing} \cup 0 .. Len(orders) /\ got \in 0 .. Len(orders)
    /\ fetch \in {"none", "sent", "answered"} /\ stale \in BOOLEAN /\ unseen \in BOOLEAN
TypeOK == ShopTypes /\ RequestTypes /\ PageTypes /\ QueryTypes

\* A visitor who waits on the page for the end of a checkout never buys one cart
\* twice: not by clicking again, and not by trying again after an answer was
\* lost, because the first checkout has emptied the cart (CheckoutPage.tsx:177, orders.service.ts:53).
BoughtOnce == ~left => Len(orders) <= fills

\* Every order costs the sum of its lines, each at a price its product had
\* while the request was under way, although prices change between the read
\* and the transaction (orders.service.ts:49-60).
Charged(o) ==
    /\ o.total = LinesSum(LAMBDA p : o.lines[p].qty, LAMBDA p : o.lines[p].price)
    /\ \A p \in Products : o.lines[p].qty > 0 => o.lines[p].price \in o.quotes[p]
ChargedAsListed == \A i \in DOMAIN orders : Charged(orders[i])

\* The profile that has fetched shows every order, also one whose page was
\* left before its answer came.  What has to wait for the data to age is an order
\* whose answer was lost, and one that was told to a query which kept a fetch the
\* server had answered before: the first one, or one that no page waits for
\* (useOrders.ts:5, 28).
HistoryComplete ==
    /\ page = "profile" /\ fetch = "none" /\ ~stale /\ ~unseen
    /\ \A r \in Requests : request[r].phase # "served"
    => OrderHistory = Len(orders)

\* Why a cart is bought once: a visitor who waits has one checkout in flight, so
\* what it has read stays in the cart, and every order empties a row.
OneCheckout ==
    ~left =>
        /\ \A r \in Requests : request[r].phase # "idle" => pending = r /\ request[r].phase # "alone"
        /\ \A r \in Requests : request[r].phase = "read" =>
              /\ \E p \in Products : request[r].lines[p].qty > 0
              /\ \A p \in Products : request[r].lines[p].qty <= cart[p]
        /\ Len(orders) + Cardinality(Rows) <= fills

\* Why it costs what was listed: the prices since the request arrived.
Quoted ==
    \A r \in Requests, p \in Products :
        /\ request[r] # Idle => price[p] \in quoted[r][p]
        /\ request[r].phase \in {"read", "alone"} => request[r].lines[p].price \in quoted[r][p]

\* Why the history is complete: what the query was not told of is about to be
\* answered, or was lost.
Told == ~unseen /\ \A r \in Requests : request[r].phase # "served"
Listed ==
    /\ fetch # "none" => stale
    /\ Told => /\ fetch = "answered" => got = Len(orders)
               /\ ~stale /\ fetch = "none" => history = Len(orders)

CheckoutInv == TypeOK /\ OneCheckout /\ Quoted /\ ChargedAsListed /\ Listed
=============================================================================
