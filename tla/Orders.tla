------------------------------- MODULE Orders -------------------------------
(***************************************************************************)
(* Checkout, cancellation and status changes of the back end               *)
(* (orders.service.ts, inventory.service.ts) over Postgres at READ         *)
(* COMMITTED, interleaved statement by statement.                          *)
(*                                                                         *)
(* A request is one HTTP call: a member of Checkouts is a POST /checkout   *)
(* (and names the order it may create), a member of Updates is a PATCH of  *)
(* an order's status.  stock, catalog, cart and status are the COMMITTED   *)
(* rows.  What a transaction has written and not committed is in lines,    *)
(* held (the product rows it has updated and therefore locks) and cleared  *)
(* (the cart rows it has deleted).                                         *)
(***************************************************************************)
EXTENDS Integers, FiniteSets

CONSTANTS
    Users,          \* customers
    Products,       \* product ids; Nat, ordered as localeCompare orders the ids
    Checkouts,      \* POST /checkout requests, and the orders they create
    Updates,        \* PATCH /admin/orders/:id/status requests
    UserOf,         \* UserOf[c]: the customer who sent checkout c
    StockLevels,    \* stock values an administrator may enter
    CartQtys,       \* quantities a cart row may hold
    Overlap,        \* may one account have several requests in flight at once?
    Crashes         \* may the process die between two steps of a request?

ASSUME ProductsAssumption == Products \subseteq Nat
ASSUME UserOfAssumption == UserOf \in [Checkouts -> Users]
ASSUME StockLevelsAssumption == StockLevels \subseteq Nat
ASSUME CartQtysAssumption == CartQtys \subseteq Nat \ {0}
ASSUME RequestsAssumption == Checkouts \cap Updates = {}
ASSUME SwitchesAssumption == Overlap \in BOOLEAN /\ Crashes \in BOOLEAN

VARIABLES
    stock,      \* stock[p]: Product.stock
    catalog,    \* ids with a Product row
    cart,       \* cart[u][p]: CartItem.qty, 0 when there is no row
    status,     \* status[c]: Order.status, NoOrder when there is no row
    pc,         \* pc[r]: the statement request r executes next, or its answer
    lines,      \* lines[c]: the cart c read; the items of the order it creates
    held,       \* held[r]: product rows locked by r's open transaction
    cleared,    \* cleared[c]: cart rows deleted by c's open transaction
    target,     \* target[s]: the order that update s is about
    wanted,     \* wanted[s]: the status that update s asks for
    restocks,   \* history: restocks[c], how often order c was put back
    supply      \* history: supply[p], units of p the administrators provided

shelfVars == <<stock, catalog, supply>>
requestVars == <<pc, lines, held, cleared, target, wanted>>
vars == <<shelfVars, cart, status, restocks, requestVars>>

Requests == Checkouts \cup Updates

Statuses == {"NEW", "PROCESSING", "SHIPPED", "COMPLETED", "CANCELLED"}
\* Mutant of FINAL_STATUSES: a cancelled order may be changed again.
OnlyCompletedIsFinal == {"COMPLETED"}
FINAL_STATUSES == {"COMPLETED", "CANCELLED"}
NoOrder == "NONE"

\* Phases in which a request has an open transaction.
TxPhases == {"decrement", "commit", "restock"}
\* Phases of a request that has been answered (or will never be).
Answers == {"ok", "rejected", "aborted"}
Phases == {"idle", "invalidate", "enqueue", "write"} \cup TxPhases \cup Answers

NoLines == [p \in Products |-> 0]
Support(l) == {p \in Products : l[p] > 0}

InFlight(r) == pc[r] \notin {"idle"} \cup Answers
Placed(c) == status[c] # NoOrder

Init ==
    /\ stock \in [Products -> StockLevels]
    /\ catalog = Products
    /\ cart = [u \in Users |-> NoLines]
    /\ status = [c \in Checkouts |-> NoOrder]
    /\ pc = [r \in Requests |-> "idle"]
    /\ lines = [c \in Checkouts |-> NoLines]
    /\ held = [r \in Requests |-> {}]
    /\ cleared = [c \in Checkouts |-> {}]
    /\ target = [s \in Updates |-> NoOrder]
    /\ wanted = [s \in Updates |-> NoOrder]
    /\ restocks = [c \in Checkouts |-> 0]
    /\ supply = stock

-----------------------------------------------------------------------------
(* Row locks: an UPDATE of a Product row keeps it until its transaction    *)
(* ends, and an UPDATE or DELETE of a row somebody else keeps waits.       *)

\* Mutant of RowFree: nobody waits for a row.
NoRowLocks(p) == TRUE
RowFree(p) == \A r \in Requests : p \notin held[r]

Remaining(r, l) == Support(l) \ held[r]

\* Mutant of IsNextLine: the lines are not sorted first.
AnyLine(c, p) == p \in Remaining(c, lines[c])

\* decrementStock walks the lines in the order of the product ids.
IsNextLine(c, p) ==
    /\ p \in Remaining(c, lines[c])
    /\ \A q \in Remaining(c, lines[c]) : p <= q

\* Mutant of Matches: the UPDATE has no condition on the stock.
MatchesId(c, p) == p \in catalog

\* WHERE id = ... AND stock >= ...
Matches(c, p) == p \in catalog /\ stock[p] >= lines[c][p]

-----------------------------------------------------------------------------
(* OrdersService.checkout *)

\* With Overlap = FALSE a customer waits for the answer of one request before
\* the next: the button is disabled while its mutation is pending.
CustomerFree(u) ==
    Overlap \/ \A c \in Checkouts : UserOf[c] = u => ~InFlight(c)

\* The cart is read before the transaction; an empty one is refused.
ReadCart(c) ==
    LET l == cart[UserOf[c]] IN
    /\ pc[c] = "idle"
    /\ CustomerFree(UserOf[c])
    /\ lines' = [lines EXCEPT ![c] = l]
    /\ pc' = [pc EXCEPT ![c] = IF Support(l) = {} THEN "rejected" ELSE "decrement"]
    /\ UNCHANGED <<shelfVars, cart, status, restocks, held, cleared, target, wanted>>

\* The conditional UPDATE of the next line affects its row.
DecrementLine(c, p) ==
    /\ pc[c] = "decrement"
    /\ IsNextLine(c, p)
    /\ RowFree(p)
    /\ Matches(c, p)
    /\ held' = [held EXCEPT ![c] = @ \cup {p}]
    /\ UNCHANGED <<shelfVars, cart, status, restocks, pc, lines, cleared, target, wanted>>

\* Mutant of RejectLine: the transaction is left open.
RejectLineLeak(c, p) ==
    /\ pc[c] = "decrement"
    /\ IsNextLine(c, p)
    /\ ~Matches(c, p)
    /\ pc' = [pc EXCEPT ![c] = "rejected"]
    /\ UNCHANGED <<shelfVars, cart, status, restocks, lines, held, cleared, target, wanted>>

\* It affects no row, and the transaction rolls back.  A row whose committed
\* version does not match is skipped without waiting for its lock.
RejectLine(c, p) ==
    /\ pc[c] = "decrement"
    /\ IsNextLine(c, p)
    /\ ~Matches(c, p)
    /\ pc' = [pc EXCEPT ![c] = "rejected"]
    /\ held' = [held EXCEPT ![c] = {}]
    /\ UNCHANGED <<shelfVars, cart, status, restocks, lines, cleared, target, wanted>>

\* Mutant of BoughtRows: the cart is kept.
KeepCart(c) == {}

\* The rows that cartItem.deleteMany finds: of the products that were read,
\* with whatever quantity they hold by now.
BoughtRows(c) == Support(lines[c]) \cap Support(cart[UserOf[c]])

\* order.create, then cartItem.deleteMany of the products that were read.
PlaceOrder(c) ==
    /\ pc[c] = "decrement"
    /\ Remaining(c, lines[c]) = {}
    /\ cleared' = [cleared EXCEPT ![c] = BoughtRows(c)]
    /\ pc' = [pc EXCEPT ![c] = "commit"]
    /\ UNCHANGED <<shelfVars, cart, status, restocks, lines, held, target, wanted>>

Commit(c) ==
    /\ pc[c] = "commit"
    /\ stock' = [p \in Products |-> stock[p] - lines[c][p]]
    /\ status' = [status EXCEPT ![c] = "NEW"]
    /\ cart' = [cart EXCEPT ![UserOf[c]] =
                   [p \in Products |-> IF p \in cleared[c] THEN 0 ELSE @[p]]]
    /\ held' = [held EXCEPT ![c] = {}]
    /\ cleared' = [cleared EXCEPT ![c] = {}]
    /\ pc' = [pc EXCEPT ![c] = "invalidate"]
    /\ UNCHANGED <<catalog, supply, restocks, lines, target, wanted>>

\* invalidateProductsCache: its effect on Redis is in ProductCache.tla.
InvalidateCache(r) ==
    /\ pc[r] = "invalidate"
    /\ pc' = [pc EXCEPT ![r] = IF r \in Checkouts THEN "enqueue" ELSE "ok"]
    /\ UNCHANGED <<shelfVars, cart, status, restocks, lines, held, cleared, target, wanted>>

\* ordersQueue.add: a checkout has a job exactly when it ends in "ok".
Enqueue(c) ==
    /\ pc[c] = "enqueue"
    /\ pc' = [pc EXCEPT ![c] = "ok"]
    /\ UNCHANGED <<shelfVars, cart, status, restocks, lines, held, cleared, target, wanted>>

-----------------------------------------------------------------------------
(* OrdersService.updateStatus *)

\* With Overlap = FALSE the administrators wait for the answer of one change
\* of an order before they request the next.
OrderFree(o) ==
    Overlap \/ \A s \in Updates : target[s] = o => ~InFlight(s)

IsFinal(st) == st \in FINAL_STATUSES

\* The order is read, and the guards are evaluated, before the transaction.
ReadOrder(s, o, st) ==
    /\ pc[s] = "idle"
    /\ OrderFree(o)
    /\ target' = [target EXCEPT ![s] = o]
    /\ wanted' = [wanted EXCEPT ![s] = st]
    /\ pc' = [pc EXCEPT ![s] =
                 IF ~Placed(o) \/ IsFinal(status[o]) THEN "rejected"
                 ELSE IF st = "CANCELLED" THEN "restock" ELSE "write"]
    /\ UNCHANGED <<shelfVars, cart, status, restocks, lines, held, cleared>>

\* restock: one UPDATE per line, in the order the items were returned, which
\* no ORDER BY fixes; the amounts are added to whatever the row holds.
RestockLine(s, p) ==
    /\ pc[s] = "restock"
    /\ p \in Remaining(s, lines[target[s]])
    /\ RowFree(p)
    /\ held' = [held EXCEPT ![s] = @ \cup {p}]
    /\ UNCHANGED <<shelfVars, cart, status, restocks, pc, lines, cleared, target, wanted>>

\* Mutant of Restocked: one unit per line comes back, whatever its quantity.
RestockedOnePerLine(o) ==
    [p \in Products |-> IF lines[o][p] > 0 THEN stock[p] + 1 ELSE stock[p]]
Restocked(o) == [p \in Products |-> stock[p] + lines[o][p]]

\* The order row is updated, unconditionally, and the transaction commits.
CancelOrder(s) ==
    LET o == target[s] IN
    /\ pc[s] = "restock"
    /\ Remaining(s, lines[o]) = {}
    /\ stock' = Restocked(o)
    /\ status' = [status EXCEPT ![o] = "CANCELLED"]
    /\ restocks' = [restocks EXCEPT ![o] = @ + 1]
    /\ held' = [held EXCEPT ![s] = {}]
    /\ pc' = [pc EXCEPT ![s] = "invalidate"]
    /\ UNCHANGED <<catalog, supply, cart, lines, cleared, target, wanted>>

\* Any other status is written with a plain order.update.
WriteStatus(s) ==
    /\ pc[s] = "write"
    /\ status' = [status EXCEPT ![target[s]] = wanted[s]]
    /\ pc' = [pc EXCEPT ![s] = "ok"]
    /\ UNCHANGED <<shelfVars, cart, restocks, lines, held, cleared, target, wanted>>

-----------------------------------------------------------------------------
(* OrdersProcessor.process: updateMany of the order where it is still NEW. *)
(* The job may be delivered more than once (OrderPipeline.tla).            *)
AutoProcess(o) ==
    /\ pc[o] = "ok"
    /\ status[o] = "NEW"
    /\ status' = [status EXCEPT ![o] = "PROCESSING"]
    /\ UNCHANGED <<shelfVars, cart, restocks, requestVars>>

-----------------------------------------------------------------------------
(* Failures *)

\* A transaction that times out, is chosen as a deadlock victim, or loses its
\* connection leaves nothing behind.
Rollback(r) ==
    /\ pc[r] \in TxPhases
    /\ pc' = [pc EXCEPT ![r] = "aborted"]
    /\ held' = [held EXCEPT ![r] = {}]
    /\ cleared' = IF r \in Checkouts THEN [cleared EXCEPT ![r] = {}] ELSE cleared
    /\ UNCHANGED <<shelfVars, cart, status, restocks, lines, target, wanted>>

\* The process dies (or Redis refuses) outside the transaction: what was
\* committed stays, what was to follow never happens.
Lose(r) ==
    /\ Crashes
    /\ pc[r] \in {"invalidate", "enqueue", "write"}
    /\ pc' = [pc EXCEPT ![r] = "aborted"]
    /\ UNCHANGED <<shelfVars, cart, status, restocks, lines, held, cleared, target, wanted>>

-----------------------------------------------------------------------------
(* The rest of the back end, one committed statement at a time *)

\* A cart row that an open transaction deletes cannot be written.
CartRowFree(u, p) == \A c \in Checkouts : UserOf[c] = u => p \notin cleared[c]

\* CartService.addItem and updateItem.  The stock they have compared n with
\* may have changed by now (Cart.tla), so n may be any quantity.
SetCartItem(u, p, n) ==
    /\ CustomerFree(u)
    /\ p \in catalog
    /\ CartRowFree(u, p)
    /\ cart' = [cart EXCEPT ![u][p] = n]
    /\ UNCHANGED <<shelfVars, status, restocks, requestVars>>

RemoveCartItem(u, p) ==
    /\ CustomerFree(u)
    /\ cart[u][p] > 0
    /\ CartRowFree(u, p)
    /\ cart' = [cart EXCEPT ![u][p] = 0]
    /\ UNCHANGED <<shelfVars, status, restocks, requestVars>>

\* ProductsService.update writes the absolute stock of the form.
SetStock(p, n) ==
    /\ p \in catalog
    /\ RowFree(p)
    /\ stock' = [stock EXCEPT ![p] = n]
    /\ supply' = [supply EXCEPT ![p] = @ + n - stock[p]]
    /\ UNCHANGED <<catalog, cart, status, restocks, requestVars>>

\* Order items keep their product (ON DELETE RESTRICT), cart rows follow it
\* (ON DELETE CASCADE).
\* Mutant of Referenced: the items of a cancelled order let their product go.
ReferencedUncancelled(p) ==
    \E c \in Checkouts : Placed(c) /\ status[c] # "CANCELLED" /\ lines[c][p] > 0
Referenced(p) == \E c \in Checkouts : Placed(c) /\ lines[c][p] > 0

RemoveProduct(p) ==
    /\ p \in catalog
    /\ RowFree(p)
    /\ ~Referenced(p)
    /\ catalog' = catalog \ {p}
    /\ cart' = [u \in Users |-> [cart[u] EXCEPT ![p] = 0]]
    /\ UNCHANGED <<stock, supply, status, restocks, requestVars>>

-----------------------------------------------------------------------------
Checkout(c) ==
    \/ ReadCart(c)
    \/ \E p \in Products : DecrementLine(c, p) \/ RejectLine(c, p)
    \/ PlaceOrder(c)
    \/ Commit(c)
    \/ InvalidateCache(c)
    \/ Enqueue(c)

UpdateStatus(s) ==
    \/ \E o \in Checkouts, st \in Statuses : ReadOrder(s, o, st)
    \/ \E p \in Products : RestockLine(s, p)
    \/ CancelOrder(s)
    \/ WriteStatus(s)
    \/ InvalidateCache(s)

Environment ==
    \/ \E u \in Users, p \in Products :
          \/ \E n \in CartQtys : SetCartItem(u, p, n)
          \/ RemoveCartItem(u, p)
    \/ \E p \in Products :
          \/ \E n \in StockLevels : SetStock(p, n)
          \/ RemoveProduct(p)

Next ==
    \/ \E c \in Checkouts : Checkout(c) \/ AutoProcess(c)
    \/ \E s \in Updates : UpdateStatus(s)
    \/ \E r \in Requests : Rollback(r) \/ Lose(r)
    \/ Environment

Spec == Init /\ [][Next]_vars

-----------------------------------------------------------------------------
(* Fairness: the event loop keeps serving a request that was started, and  *)
(* Postgres' deadlock detector aborts a transaction of a cycle.  Nothing   *)
(* obliges a customer to send a request, a transaction to be rolled back   *)
(* otherwise, or the process to die.                                       *)

\* r cannot go on before q ends its transaction.
WaitsFor(r, q) ==
    \E p \in held[q] :
        \/ r \in Checkouts /\ pc[r] = "decrement" /\ IsNextLine(r, p)
        \/ r \in Updates /\ pc[r] = "restock" /\ p \in Remaining(r, lines[target[r]])

Deadlocked(S) == S # {} /\ \A r \in S : \E q \in S \ {r} : WaitsFor(r, q)

DeadlockVictim(r) ==
    /\ \E S \in SUBSET Requests : r \in S /\ Deadlocked(S)
    /\ Rollback(r)

ServeCheckout(c) == InFlight(c) /\ Checkout(c)
ServeUpdate(s) == InFlight(s) /\ UpdateStatus(s)

FairSpec ==
    /\ Spec
    /\ \A c \in Checkouts : WF_vars(ServeCheckout(c))
    /\ \A s \in Updates : WF_vars(ServeUpdate(s))
    /\ \A r \in Requests : WF_vars(DeadlockVictim(r))

-----------------------------------------------------------------------------
(* Properties *)

\* Every variable has its type, and what belongs to an open transaction
\* (locks, uncommitted deletes) is gone when the transaction is: no early
\* return or failure of checkout or updateStatus leaks a row lock.
TypeOK ==
    /\ stock \in [Products -> Int]
    /\ supply \in [Products -> Int]
    /\ catalog \subseteq Products
    /\ cart \in [Users -> [Products -> Nat]]
    /\ status \in [Checkouts -> Statuses \cup {NoOrder}]
    /\ pc \in [Requests -> Phases]
    /\ lines \in [Checkouts -> [Products -> Nat]]
    /\ held \in [Requests -> SUBSET Products]
    /\ cleared \in [Checkouts -> SUBSET Products]
    /\ target \in [Updates -> Checkouts \cup {NoOrder}]
    /\ wanted \in [Updates -> Statuses \cup {NoOrder}]
    /\ restocks \in [Checkouts -> Nat]
    /\ \A r \in Requests : held[r] # {} => pc[r] \in TxPhases
    /\ \A c \in Checkouts : cleared[c] # {} => pc[c] = "commit"

\* No interleaving of checkouts, cancellations and stock edits oversells a
\* product (inventory.service.ts:9-15).
StockNonNegative == \A p \in Products : stock[p] >= 0

\* A unit that an open checkout has taken is still on the shelf when it
\* commits, although it was checked statements earlier: whatever happens in
\* between, the rows it has passed keep covering its lines.
ReservedUnitsAvailable ==
    \A c \in Checkouts : \A p \in held[c] : Matches(c, p)

\* Every line of every order refers to a product that exists, also when an
\* administrator deletes products while checkouts are in flight.
OrderedProductsExist ==
    \A c \in Checkouts : Placed(c) => Support(lines[c]) \subseteq catalog

\* Checkouts never wait for each other in a circle, whatever their carts:
\* the reason for the sort in decrementStock (inventory.service.ts:19).
CheckoutsNeverDeadlock ==
    \A S \in SUBSET Checkouts : ~Deadlocked(S)

\* README, "orders": once COMPLETED or CANCELLED, an order keeps its status.
FinalStatusIsFinal ==
    [][\A o \in Checkouts :
          status[o] \in {"COMPLETED", "CANCELLED"} => status'[o] = status[o]]_vars

\* The units of an order are back on the shelf exactly when it is cancelled,
\* and they came back once.
RestockedIffCancelled ==
    \A o \in Checkouts : restocks[o] = IF status[o] = "CANCELLED" THEN 1 ELSE 0

\* The step that creates an order removes from the customer's cart precisely
\* the units the order charges: nothing is bought twice and nothing that was
\* added in the meantime is lost.
OrderTakesItsCart ==
    [][\A c \in Checkouts :
          status[c] = NoOrder /\ status'[c] # NoOrder =>
             \A p \in Products :
                lines[c][p] = cart[UserOf[c]][p] - cart'[UserOf[c]][p]]_vars

\* Every request that was started is answered, although transactions wait for
\* each other's rows: no lock outlives the transaction that took it.
RequestsAnswered ==
    \A r \in Requests : InFlight(r) ~> ~InFlight(r)

-----------------------------------------------------------------------------
(* The warehouse, as StockLedger.tla promises it: an order is sold from its *)
(* commit on, and returned from its cancellation on.                        *)

Ledger == INSTANCE StockLedger WITH
    OrderIds <- Checkouts,
    Levels <- StockLevels,
    LineQtys <- CartQtys,
    sold <- [c \in Checkouts |-> IF Placed(c) THEN lines[c] ELSE NoLines],
    returned <- {c \in Checkouts : restocks[c] > 0}

\* Every step of every request is a purchase, a return, a restatement of the
\* stock, or invisible on the shelf.
ImplementsLedger == Ledger!Spec

\* Every unit that was ever provided is on the shelf or in one order that keeps
\* it, and the shelf owes none, at every moment between the writes of open
\* transactions (orders.service.ts:62-96, 143-158, inventory.service.ts:33-36).
LedgerAddsUp == Ledger!Conserved /\ Ledger!NeverOversold
=============================================================================
