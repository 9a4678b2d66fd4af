-------------------------------- MODULE Cart --------------------------------
(***************************************************************************)
(* CartService over Postgres, statement by statement, for one customer.    *)
(*                                                                         *)
(* A request is a POST, PATCH or DELETE of /cart/items.  Each statement of *)
(* the service commits on its own: there is no transaction around the      *)
(* reads, the check of the stock and the write.  Prisma's upsert with an   *)
(* include is a SELECT followed by an UPDATE or an INSERT.                 *)
(***************************************************************************)
EXTENDS Integers

CONSTANTS
    Products,       \* product ids a request may name
    Adds,           \* POST requests
    Updates,        \* PATCH requests
    Removals,       \* DELETE requests
    Amounts,        \* quantities a request may ask for
    StockLevels     \* stock values an administrator may enter

VARIABLES
    catalog,    \* ids with a Product row
    stock,      \* stock[p]: Product.stock
    row,        \* row[p]: CartItem.qty of the customer, 0 when there is no row
    pc,         \* pc[r]: the statement request r executes next, or its answer
    item,       \* item[r]: the product r names
    qty,        \* qty[r]: the quantity r asks for
    read,       \* read[r]: the stock r read
    desired,    \* desired[r]: the quantity r writes
    patient,    \* does the customer wait for every answer?
    best        \* history: best[r], the highest stock of r's product so far in r

shopVars == <<catalog, stock>>
inputVars == <<item, qty, patient>>
vars == <<shopVars, row, pc, inputVars, read, desired, best>>

CartRequests == Adds \cup Updates \cup Removals
Statements == {"product", "item", "select", "insert", "update", "delete"}
Answers == {"ok", "bad_request", "not_found", "conflict"}
InFlight(r) == pc[r] \in Statements

Init ==
    /\ catalog = Products
    /\ stock \in [Products -> StockLevels]
    /\ row = [p \in Products |-> 0]
    /\ pc = [r \in CartRequests |-> "idle"]
    /\ item \in [CartRequests -> Products]
    /\ qty \in [CartRequests -> Amounts]
    /\ patient \in BOOLEAN
    /\ read = [r \in CartRequests |-> 0]
    /\ desired = [r \in CartRequests |-> 0]
    /\ best = [r \in CartRequests |-> 0]

\* The pages do not disable "Add", "+" and "-" while a mutation is pending: only
\* a patient customer has one request in flight.
Waits == patient => \A r \in CartRequests : ~InFlight(r)

-----------------------------------------------------------------------------
(* CartController: the request arrives. *)
FirstStatement(r) == IF r \in Removals THEN "delete" ELSE "product"

Receive(r) ==
    /\ pc[r] = "idle"
    /\ Waits
    /\ pc' = [pc EXCEPT ![r] = FirstStatement(r)]
    /\ best' = [best EXCEPT ![r] = stock[item[r]]]
    /\ UNCHANGED <<shopVars, row, inputVars, read, desired>>

\* addItem: the product is read, and nothing checked but that it exists.
AddFindProduct(r) ==
    /\ r \in Adds /\ pc[r] = "product"
    /\ pc' = [pc EXCEPT ![r] = IF item[r] \in catalog THEN "item" ELSE "not_found"]
    /\ read' = [read EXCEPT ![r] = stock[item[r]]]
    /\ UNCHANGED <<shopVars, row, inputVars, desired, best>>

\* Mutant of Desired: the quantity replaces that of the row.
DesiredAlone(r) == qty[r]
Desired(r) == row[item[r]] + qty[r]

\* Mutant of Available: what is in the cart already does not count.
AvailableAlone(r, n) == qty[r] <= read[r]
Available(r, n) == n <= read[r]

\* addItem: the row is read, and the sum compared with the stock read before.
AddFindItem(r) ==
    /\ r \in Adds /\ pc[r] = "item"
    /\ desired' = [desired EXCEPT ![r] = Desired(r)]
    /\ pc' = [pc EXCEPT ![r] = IF Available(r, Desired(r)) THEN "select" ELSE "bad_request"]
    /\ UNCHANGED <<shopVars, row, inputVars, read, best>>

\* upsertItem, first half.
UpsertSelect(r) ==
    /\ r \in Adds /\ pc[r] = "select"
    /\ pc' = [pc EXCEPT ![r] = IF row[item[r]] > 0 THEN "update" ELSE "insert"]
    /\ UNCHANGED <<shopVars, row, inputVars, read, desired, best>>

\* upsertItem, second half: an INSERT fails on a row that appeared meanwhile
\* (P2002) and on a product that disappeared (P2003).
UpsertInsert(r) ==
    /\ r \in Adds /\ pc[r] = "insert"
    /\ \/ /\ item[r] \notin catalog
          /\ pc' = [pc EXCEPT ![r] = "bad_request"]
          /\ UNCHANGED row
       \/ /\ item[r] \in catalog /\ row[item[r]] > 0
          /\ pc' = [pc EXCEPT ![r] = "conflict"]
          /\ UNCHANGED row
       \/ /\ item[r] \in catalog /\ row[item[r]] = 0
          /\ pc' = [pc EXCEPT ![r] = "ok"]
          /\ row' = [row EXCEPT ![item[r]] = desired[r]]
    /\ UNCHANGED <<shopVars, inputVars, read, desired, best>>

\* updateItem: product and stock are checked in one go.
UpdateFindProduct(r) ==
    /\ r \in Updates /\ pc[r] = "product"
    /\ read' = [read EXCEPT ![r] = stock[item[r]]]
    /\ desired' = [desired EXCEPT ![r] = qty[r]]
    /\ pc' = [pc EXCEPT ![r] =
                 IF item[r] \notin catalog THEN "not_found"
                 ELSE IF qty[r] > stock[item[r]] THEN "bad_request" ELSE "update"]
    /\ UNCHANGED <<shopVars, row, inputVars, best>>

\* The UPDATE of a row that is gone fails (P2025), for both callers.
WriteRow(r) ==
    /\ pc[r] = "update"
    /\ IF row[item[r]] > 0
          THEN /\ row' = [row EXCEPT ![item[r]] = desired[r]]
               /\ pc' = [pc EXCEPT ![r] = "ok"]
          ELSE /\ pc' = [pc EXCEPT ![r] = "not_found"]
               /\ UNCHANGED row
    /\ UNCHANGED <<shopVars, inputVars, read, desired, best>>

\* removeItem.
DeleteRow(r) ==
    /\ pc[r] = "delete"
    /\ row' = [row EXCEPT ![item[r]] = 0]
    /\ pc' = [pc EXCEPT ![r] = IF row[item[r]] > 0 THEN "ok" ELSE "not_found"]
    /\ UNCHANGED <<shopVars, inputVars, read, desired, best>>

-----------------------------------------------------------------------------
(* The rest of the shop *)

\* A stock changes: an edit of an administrator, or orders of others.
SetStock(p, n) ==
    /\ p \in catalog
    /\ stock' = [stock EXCEPT ![p] = n]
    /\ best' = [r \in CartRequests |->
                   IF item[r] = p /\ InFlight(r) /\ n > best[r] THEN n ELSE best[r]]
    /\ UNCHANGED <<catalog, row, pc, inputVars, read, desired>>

\* ON DELETE CASCADE takes the cart row along.
RemoveProduct(p) ==
    /\ p \in catalog
    /\ catalog' = catalog \ {p}
    /\ row' = [row EXCEPT ![p] = 0]
    /\ UNCHANGED <<stock, pc, inputVars, read, desired, best>>

\* A checkout of the customer commits (Orders.tla).
BuyCart ==
    /\ Waits
    /\ \E p \in Products : row[p] > 0
    /\ \A p \in Products : row[p] <= stock[p]
    /\ stock' = [p \in Products |-> stock[p] - row[p]]
    /\ row' = [p \in Products |-> 0]
    /\ UNCHANGED <<catalog, pc, inputVars, read, desired, best>>

-----------------------------------------------------------------------------
Serve(r) ==
    \/ Receive(r)
    \/ AddFindProduct(r)
    \/ AddFindItem(r)
    \/ UpsertSelect(r)
    \/ UpsertInsert(r)
    \/ UpdateFindProduct(r)
    \/ WriteRow(r)
    \/ DeleteRow(r)

Next ==
    \/ \E r \in CartRequests : Serve(r)
    \/ \E p \in Products : RemoveProduct(p) \/ \E n \in StockLevels : SetStock(p, n)
    \/ BuyCart

Spec == Init /\ [][Next]_vars

-----------------------------------------------------------------------------
(* Properties *)

\* Every variable has its type, a row belongs to a product that exists, and a
\* request that is about to write has read a stock that covers what it writes.
TypeOK ==
    /\ catalog \subseteq Products
    /\ stock \in [Products -> Nat]
    /\ row \in [Products -> Nat]
    /\ pc \in [CartRequests -> {"idle"} \cup Statements \cup Answers]
    /\ item \in [CartRequests -> Products]
    /\ qty \in [CartRequests -> Amounts]
    /\ patient \in BOOLEAN
    /\ read \in [CartRequests -> Nat]
    /\ desired \in [CartRequests -> Nat]
    /\ best \in [CartRequests -> Nat]
    /\ \A p \in Products : row[p] > 0 => p \in catalog
    /\ \A r \in CartRequests : pc[r] \in {"select", "insert", "update"} => desired[r] <= read[r]

\* However stocks move and requests overlap, a quantity that a request writes
\* was in stock at some moment between its arrival and its write
\* (cart.service.ts:18-20, 30-32).
WritesWhatWasInStock ==
    \A r \in Adds \cup Updates :
        pc[r] # "ok" /\ pc'[r] = "ok" => row'[item[r]] <= best[r]
WrittenWasInStock == [][WritesWhatWasInStock]_vars

\* An add that is answered with success has put its quantity on top of what
\* the row held when it was written (cart.service.ts:16-22), whatever stocks
\* and products did meanwhile; true of a customer who waits for answers.
AddAddsItsQuantity ==
    patient => \A r \in Adds :
        pc[r] # "ok" /\ pc'[r] = "ok" => row'[item[r]] = row[item[r]] + qty[r]
AddsAddUp == [][AddAddsItsQuantity]_vars

\* Why: the stock that a request in flight meets, or has read, is at most the
\* best it could have met, and covers what it is to write.
ReadsAreCovered ==
    \A r \in CartRequests :
        /\ InFlight(r) => stock[item[r]] <= best[r]
        /\ pc[r] \in {"item", "select", "insert", "update"} => read[r] <= best[r]
        /\ pc[r] = "delete" => r \in Removals
CartInv == TypeOK /\ ReadsAreCovered

\* A customer who waits has one request in flight, and while that is an add,
\* nothing but the deletion of its product changes the row it has read.
OneAtATime ==
    patient =>
        /\ \A r, q \in CartRequests : InFlight(r) /\ InFlight(q) => r = q
        /\ \A r \in Adds : pc[r] \in {"select", "insert", "update"} /\ item[r] \in catalog
               => desired[r] = row[item[r]] + qty[r]
=============================================================================
