--------------------------- MODULE Orders_proofs ---------------------------
(***************************************************************************)
(* Proofs about Orders.tla, for all customers, products and requests, with *)
(* and without overlapping requests and crashes; and, from "Status         *)
(* changes" on, when an account waits for the answer of one request before *)
(* it sends the next (Overlap = FALSE): final statuses are final, units    *)
(* come back once, an order takes exactly its cart, and the shelf behaves  *)
(* as StockLedger.tla, whose units add up.                                 *)
(***************************************************************************)
EXTENDS Orders, Sums_proofs, TLAPS

USE DEF Requests, NoOrder

-----------------------------------------------------------------------------
(* The inductive invariant: the properties to be proved, and four facts     *)
(* about phases and locks on which they rest.                               *)

\* A change that is about to be written is of an order that exists.
UpdatesHaveOrders ==
    \A s \in Updates : pc[s] \in {"restock", "write"} =>
        target[s] \in Checkouts /\ Placed(target[s]) /\ wanted[s] \in Statuses

\* An order exists only once its checkout has committed.
OrdersAreCommitted ==
    \A c \in Checkouts : Placed(c) => pc[c] \in {"invalidate", "enqueue", "ok", "aborted"}

\* No row is locked twice.
LocksExclusive ==
    \A r, q \in Requests : r # q => held[r] \cap held[q] = {}

\* A checkout locks rows of its lines, all of them when it commits.
LocksAreLines ==
    \A c \in Checkouts :
        /\ held[c] \subseteq Support(lines[c])
        /\ pc[c] = "commit" => held[c] = Support(lines[c])

SafetyInv ==
    /\ TypeOK
    /\ UpdatesHaveOrders
    /\ OrdersAreCommitted
    /\ LocksExclusive
    /\ LocksAreLines
    /\ ReservedUnitsAvailable
    /\ OrderedProductsExist
    /\ StockNonNegative

-----------------------------------------------------------------------------
(* Types *)

\* Every step keeps the variables in their types and the locks inside
\* transactions.
LEMMA TypeStep ==
    ASSUME TypeOK, UpdatesHaveOrders, [Next]_vars
    PROVE  TypeOK'
<1>1. ASSUME NEW c \in Checkouts, ReadCart(c) PROVE TypeOK'
  BY <1>1, UserOfAssumption, RequestsAssumption DEF TypeOK, ReadCart, shelfVars, Phases, TxPhases, Answers
<1>2. ASSUME NEW c \in Checkouts, NEW p \in Products, DecrementLine(c, p) PROVE TypeOK'
  BY <1>2, RequestsAssumption DEF TypeOK, DecrementLine, shelfVars, Phases, TxPhases
<1>3. ASSUME NEW c \in Checkouts, NEW p \in Products, RejectLine(c, p) PROVE TypeOK'
  BY <1>3, RequestsAssumption DEF TypeOK, RejectLine, shelfVars, Phases, TxPhases, Answers
<1>4. ASSUME NEW c \in Checkouts, PlaceOrder(c) PROVE TypeOK'
  BY <1>4, UserOfAssumption, RequestsAssumption
  DEF TypeOK, PlaceOrder, shelfVars, Phases, TxPhases, Answers, BoughtRows, Support
<1>5. ASSUME NEW c \in Checkouts, Commit(c) PROVE TypeOK'
  <2>1. UserOf[c] \in Users
    BY UserOfAssumption
  <2>2. cart[UserOf[c]] \in [Products -> Nat]
    BY <2>1 DEF TypeOK
  <2>3. [p \in Products |-> IF p \in cleared[c] THEN 0 ELSE cart[UserOf[c]][p]]
           \in [Products -> Nat]
    BY <2>2
  <2>4. cart' \in [Users -> [Products -> Nat]]
    BY <1>5, <2>1, <2>3 DEF TypeOK, Commit
  <2>5. stock' \in [Products -> Int]
    BY <1>5 DEF TypeOK, Commit
  <2> QED
    BY <1>5, <2>4, <2>5, RequestsAssumption
    DEF TypeOK, Commit, shelfVars, Phases, TxPhases, Answers, Statuses
<1>6. ASSUME NEW r \in Requests, InvalidateCache(r) PROVE TypeOK'
  BY <1>6, RequestsAssumption DEF TypeOK, InvalidateCache, shelfVars, Phases, TxPhases, Answers
<1>7. ASSUME NEW c \in Checkouts, Enqueue(c) PROVE TypeOK'
  BY <1>7, RequestsAssumption DEF TypeOK, Enqueue, shelfVars, Phases, TxPhases, Answers
<1>8. ASSUME NEW s \in Updates, NEW o \in Checkouts, NEW st \in Statuses, ReadOrder(s, o, st)
      PROVE TypeOK'
  BY <1>8, RequestsAssumption DEF TypeOK, ReadOrder, shelfVars, Phases, TxPhases, Answers
<1>9. ASSUME NEW s \in Updates, NEW p \in Products, RestockLine(s, p) PROVE TypeOK'
  BY <1>9, RequestsAssumption DEF TypeOK, RestockLine, shelfVars, Phases, TxPhases, Answers
<1>10. ASSUME NEW s \in Updates, CancelOrder(s) PROVE TypeOK'
  BY <1>10, RequestsAssumption
  DEF TypeOK, UpdatesHaveOrders, CancelOrder, Restocked, shelfVars, Phases, TxPhases, Answers, Statuses
<1>11. ASSUME NEW s \in Updates, WriteStatus(s) PROVE TypeOK'
  BY <1>11, RequestsAssumption
  DEF TypeOK, UpdatesHaveOrders, WriteStatus, shelfVars, Phases, TxPhases, Answers
<1>12. ASSUME NEW o \in Checkouts, AutoProcess(o) PROVE TypeOK'
  BY <1>12 DEF TypeOK, AutoProcess, shelfVars, requestVars, Statuses
<1>13. ASSUME NEW r \in Requests, Rollback(r) PROVE TypeOK'
  BY <1>13, RequestsAssumption DEF TypeOK, Rollback, shelfVars, Phases, TxPhases, Answers
<1>14. ASSUME NEW r \in Requests, Lose(r) PROVE TypeOK'
  BY <1>14, RequestsAssumption DEF TypeOK, Lose, shelfVars, Phases, TxPhases, Answers
<1>15. ASSUME NEW u \in Users, NEW p \in Products, NEW n \in CartQtys, SetCartItem(u, p, n)
       PROVE TypeOK'
  BY <1>15, CartQtysAssumption DEF TypeOK, SetCartItem, shelfVars, requestVars
<1>16. ASSUME NEW u \in Users, NEW p \in Products, RemoveCartItem(u, p) PROVE TypeOK'
  BY <1>16 DEF TypeOK, RemoveCartItem, shelfVars, requestVars
<1>17. ASSUME NEW p \in Products, NEW n \in StockLevels, SetStock(p, n) PROVE TypeOK'
  BY <1>17, StockLevelsAssumption DEF TypeOK, SetStock, shelfVars, requestVars
<1>18. ASSUME NEW p \in Products, RemoveProduct(p) PROVE TypeOK'
  BY <1>18 DEF TypeOK, RemoveProduct, requestVars
<1>19. ASSUME UNCHANGED vars PROVE TypeOK'
  BY <1>19 DEF TypeOK, vars, shelfVars, requestVars
<1> QED
  BY <1>1, <1>2, <1>3, <1>4, <1>5, <1>6, <1>7, <1>8, <1>9, <1>10, <1>11, <1>12, <1>13,
     <1>14, <1>15, <1>16, <1>17, <1>18, <1>19 DEF Next, Checkout, UpdateStatus, Environment

\* Locks, phases and orders agree after every step.
LEMMA BookkeepingStep ==
    ASSUME TypeOK, UpdatesHaveOrders, OrdersAreCommitted, LocksExclusive, LocksAreLines,
           [Next]_vars
    PROVE  UpdatesHaveOrders' /\ OrdersAreCommitted' /\ LocksExclusive' /\ LocksAreLines'
<1> DEFINE Book == UpdatesHaveOrders /\ OrdersAreCommitted /\ LocksExclusive /\ LocksAreLines
<1> USE DEF UpdatesHaveOrders, OrdersAreCommitted, LocksExclusive, LocksAreLines, Placed
<1>1. ASSUME NEW c \in Checkouts, ReadCart(c) PROVE Book'
  BY <1>1, RequestsAssumption DEF TypeOK, ReadCart, shelfVars, TxPhases
<1>2. ASSUME NEW c \in Checkouts, NEW p \in Products, DecrementLine(c, p) PROVE Book'
  BY <1>2, RequestsAssumption DEF TypeOK, DecrementLine, shelfVars, IsNextLine, Remaining, RowFree
<1>3. ASSUME NEW c \in Checkouts, NEW p \in Products, RejectLine(c, p) PROVE Book'
  BY <1>3, RequestsAssumption DEF TypeOK, RejectLine, shelfVars
<1>4. ASSUME NEW c \in Checkouts, PlaceOrder(c) PROVE Book'
  BY <1>4, RequestsAssumption DEF TypeOK, PlaceOrder, shelfVars, Remaining
<1>5. ASSUME NEW c \in Checkouts, Commit(c) PROVE Book'
  BY <1>5, RequestsAssumption DEF TypeOK, Commit, shelfVars, Statuses
<1>6. ASSUME NEW r \in Requests, InvalidateCache(r) PROVE Book'
  BY <1>6, RequestsAssumption DEF TypeOK, InvalidateCache, shelfVars
<1>7. ASSUME NEW c \in Checkouts, Enqueue(c) PROVE Book'
  BY <1>7, RequestsAssumption DEF TypeOK, Enqueue, shelfVars
<1>8. ASSUME NEW s \in Updates, NEW o \in Checkouts, NEW st \in Statuses, ReadOrder(s, o, st)
      PROVE Book'
  BY <1>8, RequestsAssumption DEF TypeOK, ReadOrder, shelfVars
<1>9. ASSUME NEW s \in Updates, NEW p \in Products, RestockLine(s, p) PROVE Book'
  BY <1>9, RequestsAssumption DEF TypeOK, RestockLine, shelfVars, Remaining, RowFree
<1>10. ASSUME NEW s \in Updates, CancelOrder(s) PROVE Book'
  BY <1>10, RequestsAssumption DEF TypeOK, CancelOrder, shelfVars, Statuses
<1>11. ASSUME NEW s \in Updates, WriteStatus(s) PROVE Book'
  BY <1>11, RequestsAssumption DEF TypeOK, WriteStatus, shelfVars, Statuses
<1>12. ASSUME NEW o \in Checkouts, AutoProcess(o) PROVE Book'
  BY <1>12 DEF TypeOK, AutoProcess, shelfVars, requestVars, Statuses
<1>13. ASSUME NEW r \in Requests, Rollback(r) PROVE Book'
  BY <1>13, RequestsAssumption DEF TypeOK, Rollback, shelfVars, TxPhases
<1>14. ASSUME NEW r \in Requests, Lose(r) PROVE Book'
  BY <1>14, RequestsAssumption DEF TypeOK, Lose, shelfVars
<1>15. ASSUME Environment \/ UNCHANGED vars PROVE Book'
  BY <1>15 DEF Environment, SetCartItem, RemoveCartItem, SetStock, RemoveProduct,
               vars, shelfVars, requestVars
<1> QED
  BY <1>1, <1>2, <1>3, <1>4, <1>5, <1>6, <1>7, <1>8, <1>9, <1>10, <1>11, <1>12, <1>13,
     <1>14, <1>15 DEF Next, Checkout, UpdateStatus

-----------------------------------------------------------------------------
(* The shelf *)

\* What an open checkout has taken stays there, and nothing is oversold.
LEMMA ShelfStep ==
    ASSUME SafetyInv, [Next]_vars
    PROVE  ReservedUnitsAvailable' /\ OrderedProductsExist' /\ StockNonNegative'
<1> DEFINE Shelf == ReservedUnitsAvailable /\ OrderedProductsExist /\ StockNonNegative
<1> USE DEF SafetyInv, ReservedUnitsAvailable, OrderedProductsExist, StockNonNegative,
            Matches, Placed
<1>1. ASSUME NEW c \in Checkouts, ReadCart(c) PROVE Shelf'
  BY <1>1, RequestsAssumption DEF TypeOK, ReadCart, shelfVars, TxPhases, OrdersAreCommitted
<1>2. ASSUME NEW c \in Checkouts, NEW p \in Products, DecrementLine(c, p) PROVE Shelf'
  BY <1>2 DEF TypeOK, DecrementLine, shelfVars
<1>3. ASSUME NEW c \in Checkouts, NEW p \in Products, RejectLine(c, p) PROVE Shelf'
  BY <1>3 DEF TypeOK, RejectLine, shelfVars
<1>4. ASSUME NEW c \in Checkouts, PlaceOrder(c) PROVE Shelf'
  BY <1>4 DEF PlaceOrder, shelfVars
<1>5. ASSUME NEW c \in Checkouts, Commit(c) PROVE Shelf'
  <2>1. ASSUME NEW p \in Products PROVE stock'[p] >= 0
    <3>1. CASE lines[c][p] > 0
      BY <1>5, <3>1 DEF TypeOK, Commit, LocksAreLines, Support
    <3>2. CASE lines[c][p] = 0
      BY <1>5, <3>2 DEF TypeOK, Commit
    <3> QED
      BY <3>1, <3>2 DEF TypeOK
  <2>2. ASSUME NEW d \in Checkouts, NEW p \in held'[d] PROVE Matches(d, p)'
    <3>1. d # c /\ p \in held[d] /\ p \in Products
      BY <1>5, <2>2 DEF TypeOK, Commit
    <3>2. p \notin Support(lines[c])
      BY <1>5, <3>1 DEF LocksExclusive, LocksAreLines, Commit
    <3>3. stock'[p] = stock[p]
      BY <1>5, <3>1, <3>2 DEF TypeOK, Commit, Support
    <3> QED
      BY <1>5, <3>1, <3>3 DEF Commit
  <2>3. Support(lines[c]) \subseteq catalog
    BY <1>5 DEF Commit, LocksAreLines
  <2>4. OrderedProductsExist'
    BY <1>5, <2>3 DEF TypeOK, Commit, Support
  <2> QED
    BY <2>1, <2>2, <2>4
<1>6. ASSUME NEW r \in Requests, InvalidateCache(r) PROVE Shelf'
  BY <1>6 DEF InvalidateCache, shelfVars
<1>7. ASSUME NEW c \in Checkouts, Enqueue(c) PROVE Shelf'
  BY <1>7 DEF Enqueue, shelfVars
<1>8. ASSUME NEW s \in Updates, NEW o \in Checkouts, NEW st \in Statuses, ReadOrder(s, o, st)
      PROVE Shelf'
  BY <1>8 DEF ReadOrder, shelfVars
<1>9. ASSUME NEW s \in Updates, NEW p \in Products, RestockLine(s, p) PROVE Shelf'
  BY <1>9, RequestsAssumption DEF TypeOK, RestockLine, shelfVars
<1>10. ASSUME NEW s \in Updates, CancelOrder(s) PROVE Shelf'
  <2>1. target[s] \in Checkouts /\ Placed(target[s])
    BY <1>10 DEF UpdatesHaveOrders, CancelOrder
  <2>2. \A p \in Products : stock'[p] >= stock[p]
    BY <1>10, <2>1 DEF TypeOK, CancelOrder, Restocked
  <2>3. \A d \in Checkouts : held'[d] = held[d]
    BY <1>10, RequestsAssumption DEF TypeOK, CancelOrder
  <2>4. \A d \in Checkouts : Placed(d)' => Placed(d)
    BY <1>10, <2>1 DEF TypeOK, CancelOrder
  <2>5. stock \in [Products -> Int] /\ stock' \in [Products -> Int] /\ lines \in [Checkouts -> [Products -> Nat]]
    BY <1>10, <2>1 DEF TypeOK, CancelOrder, Restocked
  <2>6. \A d \in Checkouts : held[d] \subseteq Products
    BY DEF TypeOK
  <2>7. UNCHANGED <<catalog, lines>>
    BY <1>10 DEF CancelOrder
  <2> QED
    BY <2>2, <2>3, <2>4, <2>5, <2>6, <2>7 DEF Support
<1>11. ASSUME NEW s \in Updates, WriteStatus(s) PROVE Shelf'
  BY <1>11 DEF TypeOK, UpdatesHaveOrders, WriteStatus, shelfVars
<1>12. ASSUME NEW o \in Checkouts, AutoProcess(o) PROVE Shelf'
  BY <1>12 DEF TypeOK, AutoProcess, shelfVars, requestVars
<1>13. ASSUME NEW r \in Requests, Rollback(r) PROVE Shelf'
  BY <1>13 DEF TypeOK, Rollback, shelfVars
<1>14. ASSUME NEW r \in Requests, Lose(r) PROVE Shelf'
  BY <1>14 DEF Lose, shelfVars
<1>15. ASSUME NEW u \in Users, NEW p \in Products,
              (\E n \in CartQtys : SetCartItem(u, p, n)) \/ RemoveCartItem(u, p)
       PROVE Shelf'
  BY <1>15 DEF SetCartItem, RemoveCartItem, shelfVars, requestVars
<1>16. ASSUME NEW p \in Products, NEW n \in StockLevels, SetStock(p, n) PROVE Shelf'
  BY <1>16, StockLevelsAssumption DEF TypeOK, SetStock, RowFree, requestVars
<1>17. ASSUME NEW p \in Products, RemoveProduct(p) PROVE Shelf'
  BY <1>17 DEF TypeOK, RemoveProduct, RowFree, Referenced, Support, requestVars
<1>18. ASSUME UNCHANGED vars PROVE Shelf'
  BY <1>18 DEF vars, shelfVars, requestVars
<1> QED
  BY <1>1, <1>2, <1>3, <1>4, <1>5, <1>6, <1>7, <1>8, <1>9, <1>10, <1>11, <1>12, <1>13,
     <1>14, <1>15, <1>16, <1>17, <1>18 DEF Next, Checkout, UpdateStatus, Environment

-----------------------------------------------------------------------------
LEMMA InitSafe == Init => SafetyInv
<1> SUFFICES ASSUME Init PROVE SafetyInv
  OBVIOUS
<1>0. stock \in [Products -> Nat] /\ supply = stock
  <2>1. stock \in [Products -> StockLevels] /\ supply = stock
    BY DEF Init
  <2> QED
    BY <2>1, StockLevelsAssumption
<1>1. TypeOK
  <2>1. stock \in [Products -> Int] /\ supply \in [Products -> Int]
    BY <1>0
  <2> QED
    BY <2>1 DEF Init, TypeOK, NoLines, Phases
<1>2. StockNonNegative
  BY <1>0 DEF StockNonNegative
<1>3. UpdatesHaveOrders /\ OrdersAreCommitted /\ LocksExclusive
  BY DEF Init, UpdatesHaveOrders, OrdersAreCommitted, LocksExclusive, Placed
<1>4. LocksAreLines /\ ReservedUnitsAvailable /\ OrderedProductsExist
  BY DEF Init, LocksAreLines, ReservedUnitsAvailable, OrderedProductsExist, Placed
<1> QED
  BY <1>1, <1>2, <1>3, <1>4 DEF SafetyInv

\* The inductive invariant of all that follows.
THEOREM SafetyInvHolds == Spec => []SafetyInv
<1>1. SafetyInv /\ [Next]_vars => SafetyInv'
  <2> SUFFICES ASSUME SafetyInv, [Next]_vars PROVE SafetyInv'
    OBVIOUS
  <2>1. TypeOK'
    BY TypeStep DEF SafetyInv
  <2>2. UpdatesHaveOrders' /\ OrdersAreCommitted' /\ LocksExclusive' /\ LocksAreLines'
    BY BookkeepingStep DEF SafetyInv
  <2>3. ReservedUnitsAvailable' /\ OrderedProductsExist' /\ StockNonNegative'
    BY ShelfStep
  <2> QED
    BY <2>1, <2>2, <2>3 DEF SafetyInv
<1> QED
  BY <1>1, InitSafe, PTL DEF Spec

\* Every variable keeps its type, and no transaction leaks a row lock.
THEOREM TypeCorrect == Spec => []TypeOK
<1>1. SafetyInv => TypeOK
  BY DEF SafetyInv
<1> QED
  BY <1>1, SafetyInvHolds, PTL

\* No interleaving oversells a product.
THEOREM NeverOversold == Spec => []StockNonNegative
<1>1. SafetyInv => StockNonNegative
  BY DEF SafetyInv
<1> QED
  BY <1>1, SafetyInvHolds, PTL

\* The rows that an open checkout has passed keep covering its lines.
THEOREM ReservationsHold == Spec => []ReservedUnitsAvailable
<1>1. SafetyInv => ReservedUnitsAvailable
  BY DEF SafetyInv
<1> QED
  BY <1>1, SafetyInvHolds, PTL

\* An order never refers to a product that was deleted.
THEOREM OrdersKeepTheirProducts == Spec => []OrderedProductsExist
<1>1. SafetyInv => OrderedProductsExist
  BY DEF SafetyInv
<1> QED
  BY <1>1, SafetyInvHolds, PTL

-----------------------------------------------------------------------------
(* Why decrementStock sorts its lines: checkouts that lock rows in the     *)
(* order of the product ids never wait for each other in a circle.         *)

\* A table has a greatest product id.
IdsBounded == \E n \in Nat : Products \subseteq 0 .. n

\* A checkout has locked a row before those it is still to lock.
LocksAscend ==
    \A c \in Checkouts : pc[c] = "decrement" =>
        \A p \in held[c], q \in Remaining(c, lines[c]) : p < q

-----------------------------------------------------------------------------
(* Locks ascend. *)

LEMMA LocksAscendStep ==
    ASSUME SafetyInv, LocksAscend, [Next]_vars PROVE LocksAscend'
<1> USE DEF LocksAscend, Remaining
<1>0. /\ pc \in [Requests -> Phases] /\ held \in [Requests -> SUBSET Products]
      /\ lines \in [Checkouts -> [Products -> Nat]]
      /\ \A r \in Requests : held[r] # {} => pc[r] \in TxPhases
  BY DEF SafetyInv, TypeOK
<1>1. ASSUME NEW c \in Checkouts, ReadCart(c) PROVE LocksAscend'
  <2>1. held[c] = {} /\ held' = held
    BY <1>0, <1>1 DEF ReadCart, TxPhases
  <2>2. \A d \in Checkouts \ {c} : pc'[d] = pc[d] /\ lines'[d] = lines[d]
    BY <1>0, <1>1 DEF ReadCart
  <2> QED BY <2>1, <2>2
<1>2. ASSUME NEW c \in Checkouts, NEW p \in Products, DecrementLine(c, p) PROVE LocksAscend'
  <2>1. /\ p \in Support(lines[c]) \ held[c]
        /\ \A q \in Support(lines[c]) \ held[c] : p <= q
        /\ held' = [held EXCEPT ![c] = held[c] \cup {p}]
        /\ UNCHANGED <<pc, lines>>
    BY <1>2 DEF DecrementLine, IsNextLine
  <2>2. \A d \in Checkouts : Support(lines[d]) \subseteq Nat /\ Support(lines'[d]) = Support(lines[d])
    BY <2>1, ProductsAssumption DEF Support
  <2>3. ASSUME NEW a \in held'[c], NEW q \in Support(lines[c]) \ held'[c], pc[c] = "decrement"
        PROVE  a < q
    <3>1. q \in Support(lines[c]) \ held[c] /\ q # p /\ q \in Nat /\ p \in Nat
      BY <1>0, <2>1, <2>2
    <3>2. CASE a = p
      BY <2>1, <3>1, <3>2
    <3>3. CASE a \in held[c]
      BY <3>1, <3>3, <2>3
    <3> QED BY <1>0, <2>1, <3>2, <3>3
  <2>4. \A d \in Checkouts \ {c} : held'[d] = held[d]
    BY <1>0, <2>1
  <2> QED BY <2>1, <2>2, <2>3, <2>4
<1>3. ASSUME NEW r \in Requests, held' = [held EXCEPT ![r] = {}] \/ held' = held,
             lines' = lines, \A q \in Requests : pc'[q] = "decrement" => pc[q] = "decrement"
      PROVE  LocksAscend'
  <2>1. ASSUME NEW c \in Checkouts, pc'[c] = "decrement", NEW p \in held'[c],
               NEW q \in Support(lines[c]) \ held'[c]
        PROVE  p < q
    <3>1. held'[c] = held[c]
      BY <1>0, <1>3, <2>1
    <3> QED BY <1>3, <2>1, <3>1
  <2>2. \A c \in Checkouts : Support(lines'[c]) = Support(lines[c])
    BY <1>3
  <2> QED BY <2>1, <2>2
<1>4. ASSUME NEW c \in Checkouts,
             \/ \E p \in Products : RejectLine(c, p)
             \/ PlaceOrder(c) \/ Commit(c) \/ Enqueue(c)
      PROVE  LocksAscend'
  BY <1>0, <1>3, <1>4 DEF RejectLine, PlaceOrder, Commit, Enqueue
<1>5. ASSUME NEW r \in Requests, InvalidateCache(r) \/ Rollback(r) \/ Lose(r) PROVE LocksAscend'
  BY <1>0, <1>3, <1>5 DEF InvalidateCache, Rollback, Lose
<1>6. ASSUME NEW s \in Updates,
             \/ \E o \in Checkouts, st \in Statuses : ReadOrder(s, o, st)
             \/ CancelOrder(s) \/ WriteStatus(s)
      PROVE  LocksAscend'
  BY <1>0, <1>3, <1>6 DEF ReadOrder, CancelOrder, WriteStatus
<1>7. ASSUME NEW s \in Updates, NEW p \in Products, RestockLine(s, p) PROVE LocksAscend'
  <2>1. /\ \A c \in Checkouts : held'[c] = held[c]
        /\ UNCHANGED <<pc, lines>>
    BY <1>0, <1>7, RequestsAssumption DEF RestockLine
  <2> QED BY <2>1 DEF Support
<1>8. ASSUME Environment \/ UNCHANGED vars \/ \E o \in Checkouts : AutoProcess(o) PROVE LocksAscend'
  BY <1>8 DEF Environment, SetCartItem, RemoveCartItem, SetStock, RemoveProduct, AutoProcess,
              requestVars, vars, Support
<1> QED BY <1>1, <1>2, <1>4, <1>5, <1>6, <1>7, <1>8 DEF Next, Checkout, UpdateStatus

-----------------------------------------------------------------------------
(* A circle has a greatest row that a member waits for. *)

\* A set of naturals below a bound has a greatest member.
LEMMA GreatestExists ==
    ASSUME NEW n \in Nat, NEW T \in SUBSET (0 .. n), T # {}
    PROVE  \E m \in T : \A k \in T : k <= m
<1> DEFINE Less == {ss \in Nat \X Nat : ss[1] < ss[2]}
           D == {n - k : k \in T}
<1>0. \A k \in T : k \in Nat /\ k <= n
  OBVIOUS
<1>1. IsWellFoundedOn(Less, Nat)
  BY NatLessThanWellFounded DEF OpToRel
<1>2. D \subseteq Nat /\ D # {}
  <2>1. \A k \in T : n - k \in Nat
    BY <1>0
  <2>2. D \subseteq Nat
    BY <2>1
  <2>3. PICK k \in T : TRUE
    OBVIOUS
  <2>4. n - k \in D
    OBVIOUS
  <2> QED BY <2>2, <2>4
<1>3. PICK d \in D : \A e \in D : <<e, d>> \notin Less
  <2> HIDE DEF Less, D
  <2> QED BY <1>1, <1>2, WFMin
<1>4. \A e \in D : d <= e
  <2> SUFFICES ASSUME NEW e \in D PROVE d <= e
    OBVIOUS
  <2>1. d \in Nat /\ e \in Nat
    BY <1>2
  <2>2. ~(e < d)
    BY <1>3, <2>1
  <2> QED BY <2>1, <2>2
<1>5. PICK m \in T : d = n - m
  OBVIOUS
<1>6. ASSUME NEW k \in T PROVE k <= m
  <2>1. d <= n - k
    BY <1>4
  <2>2. k \in Nat /\ m \in Nat
    BY <1>0
  <2> QED BY <1>5, <2>1, <2>2
<1> QED BY <1>6

\* Each member waits for a row beyond those it has locked, and the one who
\* keeps that row waits for a row beyond it.
LEMMA NoCircle ==
    ASSUME IdsBounded, SafetyInv, LocksAscend PROVE CheckoutsNeverDeadlock
<1> SUFFICES ASSUME NEW S \in SUBSET Checkouts, Deadlocked(S) PROVE FALSE
  BY DEF CheckoutsNeverDeadlock
<1> DEFINE Waits(r, p) == pc[r] = "decrement" /\ IsNextLine(r, p)
           Rows == {p \in Products : \E r \in S : Waits(r, p)}
<1>0. held \in [Requests -> SUBSET Products]
  BY DEF SafetyInv, TypeOK
<1>1. \A r \in S : \E q \in S : \E p \in held[q] : Waits(r, p)
  BY RequestsAssumption DEF Deadlocked, WaitsFor
<1>2. Rows # {}
  BY <1>0, <1>1 DEF Deadlocked
<1>3. PICK n \in Nat : Products \subseteq 0 .. n
  BY DEF IdsBounded
<1>4. PICK m \in Rows : \A k \in Rows : k <= m
  BY <1>2, <1>3, GreatestExists
<1>5. PICK r \in S : Waits(r, m)
  BY <1>4
<1>6. PICK q \in S : \E p \in held[q] : Waits(r, p)
  BY <1>1
<1>7. m \in held[q]
  <2>1. PICK p \in held[q] : Waits(r, p)
    BY <1>6
  <2>2. p <= m /\ m <= p
    BY <1>5, <2>1 DEF IsNextLine
  <2>3. p \in Products /\ m \in Products
    BY <1>5, <2>1 DEF IsNextLine, Remaining, Support
  <2>4. p = m
    BY <2>2, <2>3, ProductsAssumption
  <2> QED BY <2>1, <2>4
<1>8. PICK s \in S : \E p \in held[s] : Waits(q, p)
  BY <1>1
<1>9. PICK p \in held[s] : Waits(q, p)
  BY <1>8
<1>10. m < p
  BY <1>7, <1>9 DEF LocksAscend, IsNextLine
<1>11. p \in Rows
  BY <1>0, <1>9
<1>12. p \in Nat /\ m \in Nat /\ p <= m
  BY <1>0, <1>4, <1>11, ProductsAssumption
<1> QED BY <1>10, <1>12

-----------------------------------------------------------------------------
\* Checkouts never wait for each other in a circle, whatever their carts and
\* however many they are (inventory.service.ts:19).
THEOREM NoDeadlocks == IdsBounded /\ Spec => []CheckoutsNeverDeadlock
<1>1. Init => LocksAscend
  BY DEF Init, LocksAscend
<1>2. SafetyInv /\ LocksAscend /\ [Next]_vars => LocksAscend'
  BY LocksAscendStep
<1>3. IdsBounded => []IdsBounded
  <2>1. IdsBounded => IdsBounded'
    BY DEF IdsBounded
  <2> QED BY <2>1, PTL
<1>4. IdsBounded /\ SafetyInv /\ LocksAscend => CheckoutsNeverDeadlock
  BY NoCircle
<1> QED BY <1>1, <1>2, <1>3, <1>4, SafetyInvHolds, PTL DEF Spec

-----------------------------------------------------------------------------
(* Status changes *)

\* At most one change of an order is in flight.
ChangesAlone ==
    \A s, t \in Updates :
        s # t /\ InFlight(s) /\ InFlight(t) => target[s] # target[t]

\* What a change read of its order still holds when it writes.
ChangesAreFresh ==
    \A s \in Updates :
        /\ pc[s] \in {"restock", "write"} => ~IsFinal(status[target[s]])
        /\ pc[s] = "write" => wanted[s] # "CANCELLED"

ChangeInv == ChangesAlone /\ ChangesAreFresh /\ RestockedIffCancelled

\* Where a step takes the changes: one of them reads its order, or each stays
\* where it is or leaves the phases in which it holds something it has read.
LEMMA ChangePhases ==
    ASSUME TypeOK, [Next]_vars
    PROVE  \/ \E s \in Updates, o \in Checkouts, st \in Statuses : ReadOrder(s, o, st)
           \/ /\ UNCHANGED <<target, wanted>>
              /\ \A s \in Updates :
                    \/ pc'[s] = pc[s]
                    \/ pc[s] # "idle" /\ pc'[s] \in {"invalidate", "ok", "aborted"}
                         /\ (pc[s] \notin {"ok", "rejected", "aborted"})
<1> DEFINE Quiet == /\ UNCHANGED <<target, wanted>>
                    /\ \A s \in Updates :
                          \/ pc'[s] = pc[s]
                          \/ pc[s] # "idle" /\ pc'[s] \in {"invalidate", "ok", "aborted"}
                               /\ (pc[s] \notin {"ok", "rejected", "aborted"})
<1>1. ASSUME NEW c \in Checkouts, pc' = [pc EXCEPT ![c] = pc'[c]], UNCHANGED <<target, wanted>>
      PROVE Quiet
  BY <1>1, RequestsAssumption DEF TypeOK
<1>2. ASSUME NEW c \in Checkouts, NEW p \in Products, DecrementLine(c, p) \/ RejectLine(c, p)
      PROVE Quiet
  BY <1>2, RequestsAssumption DEF TypeOK, DecrementLine, RejectLine
<1>3. ASSUME NEW c \in Checkouts, ReadCart(c) \/ PlaceOrder(c) \/ Commit(c) \/ Enqueue(c)
      PROVE Quiet
  BY <1>1, <1>3 DEF TypeOK, ReadCart, PlaceOrder, Commit, Enqueue
<1>4. ASSUME NEW r \in Requests, InvalidateCache(r) PROVE Quiet
  BY <1>4, RequestsAssumption DEF TypeOK, InvalidateCache
<1>5. ASSUME NEW s \in Updates, NEW p \in Products, RestockLine(s, p) PROVE Quiet
  BY <1>5 DEF RestockLine
<1>6. ASSUME NEW s \in Updates, CancelOrder(s) \/ WriteStatus(s) PROVE Quiet
  BY <1>6 DEF TypeOK, CancelOrder, WriteStatus
<1>7. ASSUME NEW r \in Requests, Rollback(r) \/ Lose(r) PROVE Quiet
  BY <1>7 DEF TypeOK, Rollback, Lose, TxPhases
<1>8. ASSUME NEW o \in Checkouts, AutoProcess(o) PROVE Quiet
  BY <1>8 DEF AutoProcess, requestVars
<1>9. ASSUME Environment \/ UNCHANGED vars PROVE Quiet
  BY <1>9 DEF Environment, SetCartItem, RemoveCartItem, SetStock, RemoveProduct, vars, requestVars
<1> HIDE DEF Quiet
<1> QED
  <2>1. (\E s \in Updates, o \in Checkouts, st \in Statuses : ReadOrder(s, o, st)) \/ Quiet
    BY <1>2, <1>3, <1>4, <1>5, <1>6, <1>7, <1>8, <1>9 DEF Next, Checkout, UpdateStatus
  <2> QED
    BY <2>1 DEF Quiet

\* What a step does to the orders.
LEMMA OrderSteps ==
    ASSUME [Next]_vars
    PROVE  \/ \E c \in Checkouts : Commit(c) \/ AutoProcess(c)
           \/ \E s \in Updates : CancelOrder(s) \/ WriteStatus(s)
           \/ UNCHANGED <<status, restocks>>
  BY DEF Next, Checkout, UpdateStatus, Environment, ReadCart, DecrementLine, RejectLine, PlaceOrder,
     InvalidateCache, Enqueue, ReadOrder, RestockLine, Rollback, Lose, SetCartItem, RemoveCartItem,
     SetStock, RemoveProduct, vars

LEMMA ChangesAloneStep ==
    ASSUME ~Overlap, TypeOK, ChangesAlone, [Next]_vars
    PROVE  ChangesAlone'
<1>1. ASSUME NEW s \in Updates, NEW o \in Checkouts, NEW st \in Statuses, ReadOrder(s, o, st)
      PROVE ChangesAlone'
  BY <1>1 DEF TypeOK, ReadOrder, OrderFree, ChangesAlone, InFlight, Answers
<1>2. ASSUME UNCHANGED target, \A s \in Updates : InFlight(s)' => InFlight(s)
      PROVE ChangesAlone'
  BY <1>2 DEF ChangesAlone
<1> QED
  BY <1>1, <1>2, ChangePhases DEF InFlight, Answers

LEMMA ChangesAreFreshStep ==
    ASSUME ~Overlap, SafetyInv, ChangesAlone, ChangesAreFresh, [Next]_vars
    PROVE  ChangesAreFresh'
<1> USE DEF IsFinal, FINAL_STATUSES
<1>1. ASSUME NEW s \in Updates, NEW o \in Checkouts, NEW st \in Statuses, ReadOrder(s, o, st)
      PROVE ChangesAreFresh'
  BY <1>1 DEF SafetyInv, TypeOK, ReadOrder, ChangesAreFresh
<1>2. ASSUME NEW c \in Checkouts, Commit(c) PROVE ChangesAreFresh'
  BY <1>2, RequestsAssumption DEF SafetyInv, TypeOK, UpdatesHaveOrders, Commit, ChangesAreFresh
<1>3. ASSUME NEW c \in Checkouts, AutoProcess(c) PROVE ChangesAreFresh'
  BY <1>3 DEF SafetyInv, TypeOK, UpdatesHaveOrders, AutoProcess, requestVars, ChangesAreFresh
<1>4. ASSUME NEW s \in Updates, CancelOrder(s) \/ WriteStatus(s) PROVE ChangesAreFresh'
  <2> SUFFICES ASSUME NEW t \in Updates, pc'[t] \in {"restock", "write"}
               PROVE  ~IsFinal(status'[target'[t]]) /\ (pc'[t] = "write" => wanted'[t] # "CANCELLED")
    BY DEF ChangesAreFresh
  <2>1. t # s /\ pc'[t] = pc[t] /\ UNCHANGED <<target, wanted>>
    BY <1>4 DEF SafetyInv, TypeOK, CancelOrder, WriteStatus
  <2>2. target[t] # target[s]
    BY <1>4, <2>1 DEF CancelOrder, WriteStatus, ChangesAlone, InFlight, Answers
  <2>3. status'[target[t]] = status[target[t]]
    BY <1>4, <2>1, <2>2 DEF SafetyInv, TypeOK, UpdatesHaveOrders, CancelOrder, WriteStatus
  <2> QED
    BY <2>1, <2>3 DEF ChangesAreFresh
<1>5. ASSUME UNCHANGED <<status, target, wanted>>,
             \A s \in Updates : pc'[s] = pc[s] \/ pc'[s] \in {"invalidate", "ok", "aborted"}
      PROVE ChangesAreFresh'
  BY <1>5 DEF ChangesAreFresh
<1> HIDE DEF IsFinal, FINAL_STATUSES
<1>6. TypeOK
  BY DEF SafetyInv
<1> QED
  BY <1>1, <1>2, <1>3, <1>4, <1>5, <1>6, ChangePhases, OrderSteps

LEMMA RestockedStep ==
    ASSUME SafetyInv, ChangesAreFresh, RestockedIffCancelled, [Next]_vars
    PROVE  RestockedIffCancelled'
<1> USE DEF IsFinal, FINAL_STATUSES, RestockedIffCancelled
<1>1. ASSUME NEW c \in Checkouts, Commit(c) PROVE RestockedIffCancelled'
  BY <1>1 DEF SafetyInv, TypeOK, OrdersAreCommitted, Placed, Commit
<1>2. ASSUME NEW c \in Checkouts, AutoProcess(c) PROVE RestockedIffCancelled'
  BY <1>2 DEF SafetyInv, TypeOK, AutoProcess
<1>3. ASSUME NEW s \in Updates, CancelOrder(s) PROVE RestockedIffCancelled'
  BY <1>3 DEF SafetyInv, TypeOK, UpdatesHaveOrders, CancelOrder, ChangesAreFresh
<1>4. ASSUME NEW s \in Updates, WriteStatus(s) PROVE RestockedIffCancelled'
  BY <1>4 DEF SafetyInv, TypeOK, UpdatesHaveOrders, WriteStatus, ChangesAreFresh
<1>5. ASSUME UNCHANGED <<status, restocks>> PROVE RestockedIffCancelled'
  BY <1>5
<1> HIDE DEF RestockedIffCancelled
<1> QED
  BY <1>1, <1>2, <1>3, <1>4, <1>5, OrderSteps

LEMMA ChangeInvHolds == ASSUME ~Overlap PROVE Spec => []ChangeInv
<1>1. Init => ChangeInv
  BY RequestsAssumption DEF Init, ChangeInv, ChangesAlone, ChangesAreFresh, RestockedIffCancelled,
     InFlight
<1>2. SafetyInv /\ ChangeInv /\ [Next]_vars => ChangeInv'
  BY ChangesAloneStep, ChangesAreFreshStep, RestockedStep DEF ChangeInv, SafetyInv
<1> QED
  BY <1>1, <1>2, SafetyInvHolds, PTL DEF Spec

\* The units of an order are back on the shelf exactly when it is cancelled,
\* once.
THEOREM UnitsComeBackOnce == ASSUME ~Overlap PROVE Spec => []RestockedIffCancelled
<1>1. ChangeInv => RestockedIffCancelled
  BY DEF ChangeInv
<1> QED
  BY <1>1, ChangeInvHolds, PTL

\* A COMPLETED or CANCELLED order keeps its status.
THEOREM FinalStatusesStay == ASSUME ~Overlap PROVE Spec => FinalStatusIsFinal
<1> DEFINE Stays == \A o \in Checkouts :
                       status[o] \in {"COMPLETED", "CANCELLED"} => status'[o] = status[o]
<1>1. SafetyInv /\ ChangeInv /\ [Next]_vars => [Stays]_vars
  <2> SUFFICES ASSUME SafetyInv, ChangeInv, Next PROVE Stays
    OBVIOUS
  <2> USE DEF IsFinal, FINAL_STATUSES
  <2>1. ASSUME NEW c \in Checkouts, Commit(c) PROVE Stays
    BY <2>1 DEF SafetyInv, TypeOK, OrdersAreCommitted, Placed, Commit
  <2>2. ASSUME NEW s \in Updates, CancelOrder(s) PROVE Stays
    BY <2>2 DEF SafetyInv, TypeOK, ChangeInv, ChangesAreFresh, UpdatesHaveOrders, CancelOrder
  <2>3. ASSUME NEW s \in Updates, WriteStatus(s) PROVE Stays
    BY <2>3 DEF SafetyInv, TypeOK, ChangeInv, ChangesAreFresh, UpdatesHaveOrders, WriteStatus
  <2>4. ASSUME NEW o \in Checkouts, AutoProcess(o) PROVE Stays
    BY <2>4 DEF SafetyInv, TypeOK, AutoProcess
  <2>5. CASE UNCHANGED status
    BY <2>5
  <2> HIDE DEF Stays
  <2> QED
    BY <2>1, <2>2, <2>3, <2>4, <2>5, OrderSteps
<1> QED
  BY <1>1, SafetyInvHolds, ChangeInvHolds, PTL DEF FinalStatusIsFinal, Spec

-----------------------------------------------------------------------------
(* Carts *)

\* At most one checkout of a customer is in flight.
CheckoutsAlone ==
    \A c, d \in Checkouts :
        c # d /\ InFlight(c) /\ InFlight(d) => UserOf[c] # UserOf[d]

\* The cart of an open checkout is the one it has read, but for the products
\* that were deleted.
CartIsRead ==
    \A c \in Checkouts : pc[c] \in {"decrement", "commit"} =>
        \A p \in Products : \/ cart[UserOf[c]][p] = lines[c][p]
                            \/ p \notin catalog /\ cart[UserOf[c]][p] = 0

\* What an order will take from the cart is every line of it.
LinesAreCleared ==
    \A c \in Checkouts : pc[c] = "commit" => cleared[c] = Support(lines[c])

\* No order is empty, and its quantities are those of cart rows.
LinesAreBought ==
    /\ cart \in [Users -> [Products -> CartQtys \cup {0}]]
    /\ lines \in [Checkouts -> [Products -> CartQtys \cup {0}]]
    /\ \A c \in Checkouts :
          pc[c] \in {"decrement", "commit"} \/ Placed(c) => Support(lines[c]) # {}

CartInv == CheckoutsAlone /\ CartIsRead /\ LinesAreCleared /\ LinesAreBought

\* Steps that leave the carts, the lines and the catalogue alone, and take no
\* checkout into a phase in which it holds something it has read.
LEMMA CartIdleStep ==
    ASSUME CartInv, UNCHANGED <<catalog, cart, lines>>,
           \A c \in Checkouts : (pc'[c] = pc[c] /\ cleared'[c] = cleared[c])
                                \/ (InFlight(c) /\ pc'[c] \in {"enqueue", "ok", "rejected", "aborted"}),
           \A c \in Checkouts : Placed(c)' => Placed(c)
    PROVE  CartInv'
<1>1. \A c \in Checkouts : InFlight(c)' => InFlight(c)
  BY DEF InFlight
<1>2. CheckoutsAlone'
  BY <1>1 DEF CartInv, CheckoutsAlone
<1>3. CartIsRead'
  BY DEF CartInv, CartIsRead
<1>4. LinesAreCleared'
  BY DEF CartInv, LinesAreCleared, Support
<1>5. LinesAreBought'
  <2>1. \A c \in Checkouts : pc'[c] \in {"decrement", "commit"} => pc[c] \in {"decrement", "commit"}
    OBVIOUS
  <2> QED
    BY <2>1 DEF CartInv, LinesAreBought, Support
<1> QED
  BY <1>2, <1>3, <1>4, <1>5 DEF CartInv

LEMMA ReadCartStep ==
    ASSUME ~Overlap, SafetyInv, CartInv, NEW c \in Checkouts, ReadCart(c)
    PROVE  CartInv'
<1>1. /\ UserOf[c] \in Users
      /\ lines' = [lines EXCEPT ![c] = cart[UserOf[c]]]
      /\ pc' = [pc EXCEPT ![c] = IF Support(cart[UserOf[c]]) = {} THEN "rejected" ELSE "decrement"]
      /\ pc[c] = "idle"
      /\ UNCHANGED <<catalog, cart, status, cleared>>
  BY UserOfAssumption DEF ReadCart, shelfVars
<1>2. \A d \in Checkouts : UserOf[d] = UserOf[c] => ~InFlight(d)
  BY DEF ReadCart, CustomerFree
<1>3. \A d \in Checkouts : d # c => pc'[d] = pc[d] /\ lines'[d] = lines[d]
  BY <1>1 DEF SafetyInv, TypeOK
<1>4. lines'[c] = cart[UserOf[c]] /\ pc'[c] \in {"rejected", "decrement"}
      /\ (pc'[c] = "decrement" => Support(lines'[c]) # {})
  BY <1>1 DEF SafetyInv, TypeOK
<1>5. CheckoutsAlone'
  BY <1>2, <1>3 DEF CartInv, CheckoutsAlone, InFlight
<1>6. CartIsRead'
  BY <1>1, <1>3, <1>4 DEF CartInv, CartIsRead
<1>7. LinesAreCleared'
  BY <1>1, <1>3, <1>4 DEF CartInv, LinesAreCleared, Support
<1>8. LinesAreBought'
  <2>1. ~Placed(c) /\ \A d \in Checkouts : Placed(d)' <=> Placed(d)
    BY <1>1 DEF SafetyInv, OrdersAreCommitted, Placed
  <2>2. lines' \in [Checkouts -> [Products -> CartQtys \cup {0}]]
    BY <1>1 DEF CartInv, LinesAreBought
  <2> QED
    BY <1>1, <1>3, <1>4, <2>1, <2>2 DEF CartInv, LinesAreBought, Support
<1> QED
  BY <1>5, <1>6, <1>7, <1>8 DEF CartInv

LEMMA PlaceOrderStep ==
    ASSUME SafetyInv, CartInv, NEW c \in Checkouts, PlaceOrder(c)
    PROVE  CartInv'
<1>1. /\ pc[c] = "decrement" /\ pc' = [pc EXCEPT ![c] = "commit"]
      /\ cleared' = [cleared EXCEPT ![c] = BoughtRows(c)]
      /\ UNCHANGED <<catalog, cart, lines, status>>
  BY DEF PlaceOrder, shelfVars
<1>2. Support(lines[c]) \subseteq held[c]
  BY DEF PlaceOrder, Remaining
<1>3. BoughtRows(c) = Support(lines[c])
  BY <1>1, <1>2 DEF BoughtRows, Support, CartInv, CartIsRead, SafetyInv, ReservedUnitsAvailable, Matches
<1>4. /\ pc'[c] = "commit" /\ cleared'[c] = Support(lines[c])
      /\ \A d \in Checkouts : d # c => pc'[d] = pc[d] /\ cleared'[d] = cleared[d]
  BY <1>1, <1>3 DEF SafetyInv, TypeOK
<1>5. CheckoutsAlone'
  BY <1>1, <1>4 DEF CartInv, CheckoutsAlone, InFlight, Answers
<1>6. CartIsRead' /\ LinesAreCleared'
  BY <1>1, <1>4 DEF CartInv, CartIsRead, LinesAreCleared, Support
<1>7. LinesAreBought'
  BY <1>1, <1>4 DEF CartInv, LinesAreBought, Placed, Support
<1> QED
  BY <1>5, <1>6, <1>7 DEF CartInv

\* What a commit does to the cart of its customer.
LEMMA CommitTakesCart ==
    ASSUME SafetyInv, CartInv, NEW c \in Checkouts, Commit(c)
    PROVE  /\ cart' \in [Users -> [Products -> CartQtys \cup {0}]]
           /\ \A u \in Users : u # UserOf[c] => cart'[u] = cart[u]
           /\ \A p \in Products : lines[c][p] = cart[UserOf[c]][p] - cart'[UserOf[c]][p]
<1> DEFINE u == UserOf[c]
           left == [p \in Products |-> IF p \in cleared[c] THEN 0 ELSE cart[u][p]]
<1>1. u \in Users
  BY UserOfAssumption
<1>2. cart \in [Users -> [Products -> CartQtys \cup {0}]] /\ cart \in [Users -> [Products -> Nat]]
  BY DEF CartInv, LinesAreBought, SafetyInv, TypeOK
<1>3. cart' = [cart EXCEPT ![u] = left]
  BY DEF Commit
<1>4. left \in [Products -> CartQtys \cup {0}]
  BY <1>1, <1>2
<1>5. cart'[u] = left /\ cart' \in [Users -> [Products -> CartQtys \cup {0}]]
      /\ \A v \in Users : v # u => cart'[v] = cart[v]
  BY <1>1, <1>2, <1>3, <1>4
<1>6. ASSUME NEW p \in Products PROVE lines[c][p] = cart[u][p] - left[p]
  <2>1. cart[u][p] \in Nat /\ lines[c][p] \in Nat
    BY <1>1, <1>2 DEF SafetyInv, TypeOK
  <2>2. cleared[c] = Support(lines[c]) /\ held[c] = Support(lines[c]) /\ pc[c] = "commit"
    BY DEF Commit, CartInv, LinesAreCleared, SafetyInv, LocksAreLines
  <2>3. cart[u][p] = lines[c][p] \/ (p \notin catalog /\ cart[u][p] = 0)
    BY <2>2 DEF CartInv, CartIsRead
  <2>4. CASE p \in Support(lines[c])
    <3>1. p \in catalog
      BY <2>2, <2>4 DEF SafetyInv, ReservedUnitsAvailable, Matches
    <3> QED
      BY <2>1, <2>2, <2>3, <2>4, <3>1
  <2>5. CASE p \notin Support(lines[c])
    <3>1. lines[c][p] = 0 /\ left[p] = cart[u][p]
      BY <2>1, <2>2, <2>5 DEF Support
    <3> QED
      BY <2>1, <3>1
  <2> QED
    BY <2>4, <2>5
<1> HIDE DEF left
<1> QED
  BY <1>5, <1>6

LEMMA CommitCartStep ==
    ASSUME ~Overlap, SafetyInv, CartInv, NEW c \in Checkouts, Commit(c)
    PROVE  CartInv'
<1>1. /\ pc[c] = "commit" /\ pc' = [pc EXCEPT ![c] = "invalidate"]
      /\ cleared' = [cleared EXCEPT ![c] = {}]
      /\ status' = [status EXCEPT ![c] = "NEW"]
      /\ UNCHANGED <<catalog, lines>>
  BY DEF Commit
<1>2. /\ pc'[c] = "invalidate"
      /\ \A d \in Checkouts : d # c => pc'[d] = pc[d] /\ cleared'[d] = cleared[d]
                                       /\ status'[d] = status[d]
  BY <1>1 DEF SafetyInv, TypeOK
<1>3. \A d \in Checkouts : InFlight(d)' => InFlight(d)
  BY <1>1, <1>2 DEF InFlight, Answers
<1>4. CheckoutsAlone'
  BY <1>3 DEF CartInv, CheckoutsAlone
<1>5. \A d \in Checkouts : pc'[d] \in {"decrement", "commit"} => d # c /\ cart'[UserOf[d]] = cart[UserOf[d]]
  <2> SUFFICES ASSUME NEW d \in Checkouts, pc'[d] \in {"decrement", "commit"}
               PROVE  d # c /\ cart'[UserOf[d]] = cart[UserOf[d]]
    OBVIOUS
  <2>1. d # c /\ InFlight(d) /\ InFlight(c)
    BY <1>1, <1>2 DEF InFlight, Answers
  <2>2. UserOf[d] # UserOf[c] /\ UserOf[d] \in Users
    BY <2>1, UserOfAssumption DEF CartInv, CheckoutsAlone
  <2> QED
    BY <2>1, <2>2, CommitTakesCart
<1>6. CartIsRead'
  BY <1>1, <1>2, <1>5 DEF CartInv, CartIsRead
<1>7. LinesAreCleared'
  BY <1>1, <1>2 DEF CartInv, LinesAreCleared, Support
<1>8. LinesAreBought'
  <2>1. \A d \in Checkouts : pc'[d] \in {"decrement", "commit"} \/ Placed(d)'
                                => pc[d] \in {"decrement", "commit"} \/ Placed(d)
    BY <1>1, <1>2 DEF Placed
  <2> QED
    BY <1>1, <2>1, CommitTakesCart DEF CartInv, LinesAreBought, Support
<1> QED
  BY <1>4, <1>6, <1>7, <1>8 DEF CartInv

\* A customer changes the cart only while none of his checkouts is in flight.
LEMMA CartEditStep ==
    ASSUME ~Overlap, SafetyInv, CartInv, NEW u \in Users, NEW p \in Products,
           (\E n \in CartQtys : SetCartItem(u, p, n)) \/ RemoveCartItem(u, p)
    PROVE  CartInv'
<1>1. PICK n \in CartQtys \cup {0} : cart' = [cart EXCEPT ![u][p] = n]
  BY DEF SetCartItem, RemoveCartItem
<1>2. UNCHANGED <<catalog, status, pc, lines, cleared>>
      /\ \A d \in Checkouts : UserOf[d] = u => ~InFlight(d)
  BY DEF SetCartItem, RemoveCartItem, shelfVars, requestVars, CustomerFree
<1>3. /\ cart' \in [Users -> [Products -> CartQtys \cup {0}]]
      /\ \A v \in Users : v # u => cart'[v] = cart[v]
  BY <1>1 DEF CartInv, LinesAreBought
<1>4. CheckoutsAlone'
  BY <1>2 DEF CartInv, CheckoutsAlone, InFlight
<1>5. CartIsRead'
  <2>1. \A d \in Checkouts : pc[d] \in {"decrement", "commit"} => cart'[UserOf[d]] = cart[UserOf[d]]
    BY <1>2, <1>3, UserOfAssumption DEF InFlight, Answers
  <2> QED
    BY <1>2, <2>1 DEF CartInv, CartIsRead
<1>6. LinesAreCleared' /\ LinesAreBought'
  BY <1>2, <1>3 DEF CartInv, LinesAreCleared, LinesAreBought, Placed, Support
<1> QED
  BY <1>4, <1>5, <1>6 DEF CartInv

\* A product that is deleted leaves every cart.
LEMMA RemoveProductStep ==
    ASSUME SafetyInv, CartInv, NEW p \in Products, RemoveProduct(p)
    PROVE  CartInv'
<1>1. /\ catalog' = catalog \ {p}
      /\ cart' = [u \in Users |-> [cart[u] EXCEPT ![p] = 0]]
      /\ UNCHANGED <<status, pc, lines, cleared>>
  BY DEF RemoveProduct, requestVars
<1>2. cart \in [Users -> [Products -> CartQtys \cup {0}]]
  BY DEF CartInv, LinesAreBought
<1>3. /\ cart' \in [Users -> [Products -> CartQtys \cup {0}]]
      /\ \A u \in Users, q \in Products : cart'[u][q] = IF q = p THEN 0 ELSE cart[u][q]
  BY <1>1, <1>2
<1>4. CheckoutsAlone'
  BY <1>1 DEF CartInv, CheckoutsAlone, InFlight
<1>5. CartIsRead'
  <2> SUFFICES ASSUME NEW c \in Checkouts, pc[c] \in {"decrement", "commit"}, NEW q \in Products
               PROVE  \/ cart'[UserOf[c]][q] = lines[c][q]
                      \/ q \notin catalog' /\ cart'[UserOf[c]][q] = 0
    BY <1>1 DEF CartIsRead
  <2>1. UserOf[c] \in Users
    BY UserOfAssumption
  <2>2. cart[UserOf[c]][q] = lines[c][q] \/ (q \notin catalog /\ cart[UserOf[c]][q] = 0)
    BY DEF CartInv, CartIsRead
  <2> QED
    BY <1>1, <1>3, <2>1, <2>2
<1>6. LinesAreCleared' /\ LinesAreBought'
  BY <1>1, <1>3 DEF CartInv, LinesAreCleared, LinesAreBought, Placed, Support
<1> QED
  BY <1>4, <1>5, <1>6 DEF CartInv

LEMMA CartStep ==
    ASSUME ~Overlap, SafetyInv, ChangeInv, CartInv, [Next]_vars
    PROVE  CartInv'
<1> USE DEF SafetyInv, TypeOK, shelfVars, requestVars
<1>1. ASSUME NEW c \in Checkouts, NEW p \in Products, DecrementLine(c, p) PROVE CartInv'
  BY <1>1, CartIdleStep DEF DecrementLine, Placed
<1>2. ASSUME NEW c \in Checkouts, NEW p \in Products, RejectLine(c, p) PROVE CartInv'
  BY <1>2, CartIdleStep DEF RejectLine, Placed, InFlight, Answers
<1>3. ASSUME NEW r \in Requests, InvalidateCache(r) PROVE CartInv'
  BY <1>3, CartIdleStep DEF InvalidateCache, Placed, InFlight, Answers
<1>4. ASSUME NEW c \in Checkouts, Enqueue(c) PROVE CartInv'
  BY <1>4, CartIdleStep DEF Enqueue, Placed, InFlight, Answers
<1>5. ASSUME NEW s \in Updates, NEW o \in Checkouts, NEW st \in Statuses, ReadOrder(s, o, st)
      PROVE CartInv'
  <2>1. \A c \in Checkouts : pc'[c] = pc[c]
    BY <1>5, RequestsAssumption DEF ReadOrder
  <2> QED
    BY <1>5, <2>1, CartIdleStep DEF ReadOrder, Placed
<1>6. ASSUME NEW s \in Updates, NEW p \in Products, RestockLine(s, p) PROVE CartInv'
  BY <1>6, CartIdleStep DEF RestockLine, Placed
<1>7. ASSUME NEW s \in Updates, CancelOrder(s) \/ WriteStatus(s) PROVE CartInv'
  <2>1. \A c \in Checkouts : pc'[c] = pc[c]
    BY <1>7, RequestsAssumption DEF CancelOrder, WriteStatus
  <2>2. \A c \in Checkouts : Placed(c)' => Placed(c)
    BY <1>7 DEF CancelOrder, WriteStatus, UpdatesHaveOrders, Placed
  <2>3. UNCHANGED <<catalog, cart, lines, cleared>>
    BY <1>7 DEF CancelOrder, WriteStatus
  <2> QED
    BY <2>1, <2>2, <2>3, CartIdleStep
<1>8. ASSUME NEW o \in Checkouts, AutoProcess(o) PROVE CartInv'
  BY <1>8, CartIdleStep DEF AutoProcess, Placed
<1>9. ASSUME NEW r \in Requests, Rollback(r) PROVE CartInv'
  <2>1. \A c \in Checkouts : \/ pc'[c] = pc[c] /\ cleared'[c] = cleared[c]
                             \/ InFlight(c) /\ pc'[c] = "aborted"
    BY <1>9, RequestsAssumption DEF Rollback, InFlight, TxPhases, Answers
  <2>2. UNCHANGED <<catalog, cart, lines, status>>
    BY <1>9 DEF Rollback
  <2> QED
    BY <2>1, <2>2, CartIdleStep DEF Placed
<1>10. ASSUME NEW r \in Requests, Lose(r) PROVE CartInv'
  BY <1>10, CartIdleStep DEF Lose, Placed, InFlight, Answers
<1>11. ASSUME NEW p \in Products, NEW n \in StockLevels, SetStock(p, n) PROVE CartInv'
  BY <1>11, CartIdleStep DEF SetStock, Placed
<1>12. ASSUME UNCHANGED vars PROVE CartInv'
  BY <1>12, CartIdleStep DEF vars, Placed
<1> HIDE DEF SafetyInv, TypeOK
<1> QED
  BY <1>1, <1>2, <1>3, <1>4, <1>5, <1>6, <1>7, <1>8, <1>9, <1>10, <1>11, <1>12, ReadCartStep,
     PlaceOrderStep, CommitCartStep, CartEditStep, RemoveProductStep
  DEF Next, Checkout, UpdateStatus, Environment

LEMMA CartInvHolds == ASSUME ~Overlap PROVE Spec => []CartInv
<1>1. Init => CartInv
  <2> SUFFICES ASSUME Init PROVE CartInv
    OBVIOUS
  <2>1. \A c \in Checkouts : pc[c] = "idle" /\ ~Placed(c)
    BY DEF Init, Placed
  <2>2. LinesAreBought
    BY <2>1 DEF Init, LinesAreBought, NoLines
  <2> QED
    BY <2>1, <2>2 DEF CartInv, CheckoutsAlone, CartIsRead, LinesAreCleared, InFlight
<1>2. SafetyInv /\ ChangeInv /\ CartInv /\ [Next]_vars => CartInv'
  BY CartStep
<1> QED
  BY <1>1, <1>2, SafetyInvHolds, ChangeInvHolds, PTL DEF Spec

\* The step that creates an order removes from the cart precisely the units
\* that the order charges.
THEOREM OrdersTakeTheirCarts == ASSUME ~Overlap PROVE Spec => OrderTakesItsCart
<1> DEFINE Takes == \A c \in Checkouts :
                       status[c] = NoOrder /\ status'[c] # NoOrder =>
                          \A p \in Products :
                             lines[c][p] = cart[UserOf[c]][p] - cart'[UserOf[c]][p]
<1>1. SafetyInv /\ CartInv /\ [Next]_vars => [Takes]_vars
  <2> SUFFICES ASSUME SafetyInv, CartInv, Next PROVE Takes
    OBVIOUS
  <2>1. ASSUME NEW c \in Checkouts, Commit(c) PROVE Takes
    <3>1. \A d \in Checkouts : d # c => status'[d] = status[d]
      BY <2>1 DEF SafetyInv, TypeOK, Commit
    <3> QED
      BY <2>1, <3>1, CommitTakesCart
  <2>2. ASSUME NEW s \in Updates, CancelOrder(s) \/ WriteStatus(s) PROVE Takes
    BY <2>2 DEF SafetyInv, TypeOK, UpdatesHaveOrders, CancelOrder, WriteStatus, Placed
  <2>3. ASSUME NEW o \in Checkouts, AutoProcess(o) PROVE Takes
    BY <2>3 DEF SafetyInv, TypeOK, AutoProcess
  <2>4. CASE UNCHANGED status
    BY <2>4
  <2> HIDE DEF Takes
  <2> QED
    BY <2>1, <2>2, <2>3, <2>4, OrderSteps
<1> QED
  BY <1>1, SafetyInvHolds, CartInvHolds, PTL DEF OrderTakesItsCart, Spec

-----------------------------------------------------------------------------
(* The warehouse *)

\* What the ledger sees of the orders.
Sold == [c \in Checkouts |-> IF Placed(c) THEN lines[c] ELSE NoLines]
Returned == {c \in Checkouts : restocks[c] > 0}

\* Steps that the ledger does not see.
LEMMA InvisibleStep ==
    ASSUME SafetyInv, UNCHANGED <<stock, supply, restocks>>,
           \A c \in Checkouts : Placed(c)' <=> Placed(c),
           \A c \in Checkouts : Placed(c) => lines'[c] = lines[c]
    PROVE  UNCHANGED Ledger!ledgerVars
<1>1. Sold' = Sold
  BY DEF Sold, NoLines
<1>2. Returned' = Returned
  BY DEF Returned
<1> QED
  BY <1>1, <1>2 DEF Ledger!ledgerVars, Sold, Returned

\* The commit of a checkout is a purchase.
LEMMA CommitIsPurchase ==
    ASSUME SafetyInv, CartInv, NEW c \in Checkouts, Commit(c)
    PROVE  \E l \in [Products -> CartQtys \cup {0}] : Ledger!Purchase(c, l)
<1>1. /\ pc[c] = "commit"
      /\ stock' = [p \in Products |-> stock[p] - lines[c][p]]
      /\ status' = [status EXCEPT ![c] = "NEW"]
      /\ UNCHANGED <<supply, restocks, lines>>
  BY DEF Commit
<1>2. lines[c] \in [Products -> CartQtys \cup {0}] /\ lines[c] \in [Products -> Nat]
      /\ stock \in [Products -> Int]
  BY DEF CartInv, LinesAreBought, SafetyInv, TypeOK
<1>3. ~Placed(c)
  BY <1>1 DEF SafetyInv, OrdersAreCommitted
<1>4. lines[c] # NoLines
  <2>1. Support(lines[c]) # {}
    BY <1>1 DEF CartInv, LinesAreBought
  <2> QED
    BY <2>1 DEF Support, NoLines
<1>5. \A p \in Products : lines[c][p] <= stock[p]
  <2> SUFFICES ASSUME NEW p \in Products PROVE lines[c][p] <= stock[p]
    OBVIOUS
  <2>1. CASE lines[c][p] > 0
    BY <1>1, <2>1 DEF SafetyInv, LocksAreLines, Support, ReservedUnitsAvailable, Matches
  <2>2. CASE lines[c][p] = 0
    BY <1>2, <2>2 DEF SafetyInv, StockNonNegative
  <2> QED
    BY <1>2, <2>1, <2>2
<1>6. Sold' = [Sold EXCEPT ![c] = lines[c]]
  <2>1. \A d \in Checkouts : Placed(d)' <=> (Placed(d) \/ d = c)
    BY <1>1 DEF SafetyInv, TypeOK, Placed
  <2> QED
    BY <1>1, <2>1 DEF Sold, NoLines
<1>7. Returned' = Returned
  BY <1>1 DEF Returned
<1>8. Sold[c] = NoLines
  BY <1>3 DEF Sold
<1>9. PICK l \in [Products -> CartQtys \cup {0}] : l = lines[c]
  BY <1>2
<1>10. Ledger!Purchase(c, l)
  BY <1>1, <1>2, <1>4, <1>5, <1>6, <1>7, <1>8, <1>9
  DEF Ledger!Purchase, Ledger!Placed, Ledger!Covers, Ledger!NoLines, Sold, Returned, NoLines
<1> QED
  BY <1>10

\* A cancellation is a return.
LEMMA CancelIsReturn ==
    ASSUME SafetyInv, ChangeInv, CartInv, NEW s \in Updates, CancelOrder(s)
    PROVE  \E o \in Checkouts : Ledger!Return(o)
<1>0. PICK o \in Checkouts : o = target[s]
  BY DEF CancelOrder, SafetyInv, UpdatesHaveOrders
<1>1. /\ stock' = [p \in Products |-> stock[p] + lines[o][p]]
      /\ status' = [status EXCEPT ![o] = "CANCELLED"]
      /\ restocks' = [restocks EXCEPT ![o] = @ + 1]
      /\ pc[s] = "restock"
      /\ UNCHANGED <<supply, lines>>
  BY <1>0 DEF CancelOrder, Restocked
<1>2. Placed(o) /\ ~IsFinal(status[o])
  BY <1>0, <1>1 DEF SafetyInv, UpdatesHaveOrders, ChangeInv, ChangesAreFresh
<1>3. restocks[o] = 0 /\ restocks \in [Checkouts -> Nat]
  BY <1>2 DEF ChangeInv, RestockedIffCancelled, IsFinal, FINAL_STATUSES, SafetyInv, TypeOK
<1>4. lines[o] # NoLines
  <2>1. Support(lines[o]) # {}
    BY <1>2 DEF CartInv, LinesAreBought
  <2> QED
    BY <2>1 DEF Support, NoLines
<1>5. Sold' = Sold
  <2>1. \A d \in Checkouts : Placed(d)' <=> Placed(d)
    BY <1>1, <1>2 DEF SafetyInv, TypeOK, Placed
  <2> QED
    BY <1>1, <2>1 DEF Sold, NoLines
<1>6. Returned' = Returned \cup {o} /\ o \notin Returned
  BY <1>1, <1>2, <1>3 DEF Returned
<1>7. Sold[o] = lines[o]
  BY <1>2 DEF Sold
<1>8. Ledger!Return(o)
  BY <1>1, <1>2, <1>4, <1>5, <1>6, <1>7
  DEF Ledger!Return, Ledger!Placed, Ledger!NoLines, Sold, Returned, NoLines
<1> QED
  BY <1>8

\* The detailed specification implements the abstract one: no interleaving of
\* requests, rollbacks and crashes makes the shelf move in any other way than
\* by purchases, returns and restatements.
THEOREM ShelfImplementsLedger == ASSUME ~Overlap PROVE Spec => ImplementsLedger
<1>1. Init => Ledger!Init
  <2> SUFFICES ASSUME Init PROVE Ledger!Init
    OBVIOUS
  <2>1. stock \in [Products -> StockLevels] /\ supply = stock
    BY DEF Init
  <2>2. \A c \in Checkouts : ~Placed(c) /\ ~(restocks[c] > 0)
    BY DEF Init, Placed
  <2> QED
    BY <2>1, <2>2 DEF Ledger!Init, Ledger!NoLines, NoLines
<1>2. SafetyInv /\ ChangeInv /\ CartInv /\ [Next]_vars => [Ledger!Next]_(Ledger!ledgerVars)
  <2> SUFFICES ASSUME SafetyInv, ChangeInv, CartInv, [Next]_vars
               PROVE  Ledger!Next \/ UNCHANGED Ledger!ledgerVars
    OBVIOUS
  <2> DEFINE Goal == Ledger!Next \/ UNCHANGED Ledger!ledgerVars
  <2>1. ASSUME NEW c \in Checkouts, Commit(c) PROVE Goal
    BY <2>1, CommitIsPurchase DEF Ledger!Next
  <2>2. ASSUME NEW s \in Updates, CancelOrder(s) PROVE Goal
    BY <2>2, CancelIsReturn DEF Ledger!Next
  <2>3. ASSUME NEW p \in Products, NEW n \in StockLevels, SetStock(p, n) PROVE Goal
    <3>1. UNCHANGED <<Sold, Returned>>
      BY <2>3 DEF SetStock, Sold, Returned, Placed, NoLines, requestVars
    <3>2. Ledger!Adjust(p, n)
      BY <2>3, <3>1 DEF Ledger!Adjust, SetStock, Sold, Returned
    <3> QED
      BY <3>2 DEF Ledger!Next
  <2>4. ASSUME NEW c \in Checkouts, ReadCart(c) PROVE Goal
    <3>1. ~Placed(c)
      BY <2>4 DEF ReadCart, SafetyInv, OrdersAreCommitted
    <3>2. \A d \in Checkouts : Placed(d) => lines'[d] = lines[d]
      BY <2>4, <3>1 DEF ReadCart, SafetyInv, TypeOK
    <3> QED
      BY <2>4, <3>2, InvisibleStep DEF ReadCart, shelfVars, Placed
  <2>5. ASSUME NEW s \in Updates, WriteStatus(s) PROVE Goal
    <3>1. \A d \in Checkouts : Placed(d)' <=> Placed(d)
      BY <2>5 DEF WriteStatus, SafetyInv, TypeOK, UpdatesHaveOrders, Placed, Statuses
    <3> QED
      BY <2>5, <3>1, InvisibleStep DEF WriteStatus, shelfVars
  <2>6. ASSUME NEW o \in Checkouts, AutoProcess(o) PROVE Goal
    <3>1. \A d \in Checkouts : Placed(d)' <=> Placed(d)
      BY <2>6 DEF AutoProcess, SafetyInv, TypeOK, Placed
    <3> QED
      BY <2>6, <3>1, InvisibleStep DEF AutoProcess, shelfVars, requestVars
  <2>7. ASSUME UNCHANGED <<stock, supply, restocks, status, lines>> PROVE Goal
    BY <2>7, InvisibleStep DEF Placed
  <2> HIDE DEF Goal
  <2>8. Goal
    <3>1. ASSUME NEW c \in Checkouts, Checkout(c) PROVE Goal
      BY <3>1, <2>1, <2>4, <2>7
      DEF Checkout, DecrementLine, RejectLine, PlaceOrder, InvalidateCache, Enqueue, shelfVars
    <3>2. ASSUME NEW s \in Updates, UpdateStatus(s) PROVE Goal
      BY <3>2, <2>2, <2>5, <2>7 DEF UpdateStatus, ReadOrder, RestockLine, InvalidateCache, shelfVars
    <3>3. ASSUME NEW r \in Requests, Rollback(r) \/ Lose(r) PROVE Goal
      BY <3>3, <2>7 DEF Rollback, Lose, shelfVars
    <3>4. ASSUME Environment PROVE Goal
      BY <3>4, <2>3, <2>7
      DEF Environment, SetCartItem, RemoveCartItem, RemoveProduct, shelfVars, requestVars
    <3>5. ASSUME UNCHANGED vars PROVE Goal
      BY <3>5, <2>7 DEF vars, shelfVars, requestVars
    <3> QED
      BY <2>6, <3>1, <3>2, <3>3, <3>4, <3>5 DEF Next
  <2> QED
    BY <2>8 DEF Goal
<1> QED
  BY <1>1, <1>2, SafetyInvHolds, ChangeInvHolds, CartInvHolds, PTL
  DEF ImplementsLedger, Ledger!Spec, Spec

-----------------------------------------------------------------------------
(* The units of the ledger add up: the sum runs over the orders that keep  *)
(* theirs, of which there are always finitely many.                        *)

\* Units of product p in the orders of S, when order o took sold[o].
Units(sold, S, p) == SumFunctionOnSet([o \in S |-> sold[o][p]], S)

\* What the sum needs of the ledger: a returned order was placed, and lines have
\* integers.
LedgerTypes ==
    /\ stock \in [Products -> Int] /\ supply \in [Products -> Int]
    /\ Sold \in [Checkouts -> [Products -> Int]]
    /\ \A o \in Returned : Sold[o] # NoLines

\* The orders that keep their units.
Keeping == {o \in Checkouts : Sold[o] # NoLines} \ Returned

\* The orders that keep their units are finitely many, and every unit that was
\* ever provided is on the shelf or in one of them.
LedgerInv ==
    /\ IsFiniteSet(Keeping)
    /\ \A p \in Products : supply[p] = stock[p] + Units(Sold, Keeping, p)

\* It says of the shelf of Orders.tla what StockLedger.tla promises.
LEMMA LedgerInvMeans == LedgerInv => Ledger!Conserved
<1>1. Ledger!Keeping = Keeping
  BY DEF Ledger!Keeping, Ledger!Placed, Ledger!NoLines, Keeping, NoLines, Sold, Returned
<1>2. ASSUME NEW p \in Products PROVE Ledger!Outstanding(p) = Units(Sold, Keeping, p)
  BY <1>1
  DEF Ledger!Outstanding, Ledger!SumFunction, Ledger!SumFunctionOnSet,
      Ledger!FoldFunctionOnSet, Ledger!MapThenFoldSet, Units, SumFunctionOnSet,
      FoldFunctionOnSet, MapThenFoldSet, Sold
<1> QED BY <1>2 DEF LedgerInv, Ledger!Conserved

\* Orders keep a number of units.
LEMMA UnitsAreInt ==
    ASSUME NEW sold \in [Checkouts -> [Products -> Int]], NEW S \in SUBSET Checkouts,
           IsFiniteSet(S), NEW p \in Products
    PROVE  Units(sold, S, p) \in Int
BY SumIsInt DEF Units

\* Units depend on the lines of the orders that are summed.
LEMMA UnitsSame ==
    ASSUME NEW sold, NEW others, NEW S, IsFiniteSet(S), NEW p, 
           \A o \in S : sold[o] = others[o]
    PROVE  Units(sold, S, p) = Units(others, S, p)
<1>1. [o \in S |-> sold[o][p]] = [o \in S |-> others[o][p]]
  OBVIOUS
<1> QED BY <1>1 DEF Units

\* An order more, and its units more.
LEMMA UnitsAdd ==
    ASSUME NEW sold \in [Checkouts -> [Products -> Int]], NEW S \in SUBSET Checkouts,
           IsFiniteSet(S), NEW o \in Checkouts \ S, NEW p \in Products
    PROVE  Units(sold, S \cup {o}, p) = sold[o][p] + Units(sold, S, p)
<1> DEFINE f == [q \in S \cup {o} |-> sold[q][p]]
<1>1. SumFunctionOnSet(f, S \cup {o}) = f[o] + SumFunctionOnSet(f, S)
  <2>1. \A q \in S \cup {o} : f[q] \in Int
    OBVIOUS
  <2> HIDE DEF f
  <2> QED BY <2>1, SumAdd
<1>2. SumFunctionOnSet(f, S) = Units(sold, S, p)
  <2>1. \A q \in S : f[q] = [r \in S |-> sold[r][p]][q]
    OBVIOUS
  <2> HIDE DEF f
  <2> QED BY <2>1, SumSame DEF Units
<1> QED BY <1>1, <1>2 DEF Units

\* A purchase takes from the shelf what its order keeps.
LEMMA PurchaseConserves ==
    ASSUME LedgerTypes, LedgerTypes', LedgerInv, NEW c \in Checkouts,
           NEW l \in [Products -> CartQtys \cup {0}], Ledger!Purchase(c, l)
    PROVE  LedgerInv'
<1>1. /\ Sold[c] = NoLines /\ l # NoLines
      /\ stock' = [p \in Products |-> stock[p] - l[p]]
      /\ Sold' = [Sold EXCEPT ![c] = l]
      /\ Returned' = Returned /\ supply' = supply
  BY DEF Ledger!Purchase, Ledger!Placed, Ledger!NoLines, NoLines, Sold, Returned
<1>2. c \notin Keeping /\ Keeping' = Keeping \cup {c}
  BY <1>1 DEF LedgerTypes, Keeping
<1>3. IsFiniteSet(Keeping')
  BY <1>2, FS_AddElement DEF LedgerInv
<1>4. ASSUME NEW p \in Products PROVE supply'[p] = stock'[p] + Units(Sold', Keeping', p)
  <2>0. /\ Sold' \in [Checkouts -> [Products -> Int]] /\ IsFiniteSet(Keeping)
        /\ Keeping \in SUBSET Checkouts /\ c \in Checkouts \ Keeping
    BY <1>2 DEF LedgerInv, LedgerTypes, Keeping
  <2>1. Units(Sold', Keeping', p) = Sold'[c][p] + Units(Sold', Keeping, p)
    <3>1. Units(Sold', Keeping \cup {c}, p) = Sold'[c][p] + Units(Sold', Keeping, p)
      BY <2>0, UnitsAdd
    <3> QED BY <1>2, <3>1
  <2>2. Units(Sold', Keeping, p) = Units(Sold, Keeping, p)
    <3>1. \A o \in Keeping : Sold'[o] = Sold[o]
      BY <1>1, <1>2 DEF LedgerTypes, Keeping
    <3> QED BY <2>0, <3>1, UnitsSame
  <2>3. Sold'[c][p] = l[p] /\ l[p] \in Int /\ stock'[p] = stock[p] - l[p]
    BY <1>1 DEF LedgerTypes
  <2>4. Units(Sold, Keeping, p) \in Int /\ stock[p] \in Int
    BY UnitsAreInt DEF LedgerInv, LedgerTypes, Keeping
  <2>5. supply[p] = stock[p] + Units(Sold, Keeping, p)
    BY DEF LedgerInv
  <2> QED BY <1>1, <2>1, <2>2, <2>3, <2>4, <2>5
<1> QED BY <1>3, <1>4 DEF LedgerInv

\* A return puts on the shelf what its order kept.
LEMMA ReturnConserves ==
    ASSUME LedgerTypes, LedgerInv, NEW c \in Checkouts, Ledger!Return(c)
    PROVE  LedgerInv'
<1>1. /\ c \notin Returned /\ Sold[c] # NoLines
      /\ stock' = [p \in Products |-> stock[p] + Sold[c][p]]
      /\ Returned' = Returned \cup {c}
      /\ Sold' = Sold /\ supply' = supply
  BY DEF Ledger!Return, Ledger!Placed, Ledger!NoLines, NoLines, Sold, Returned
<1>2. c \in Keeping /\ Keeping' = Keeping \ {c}
  BY <1>1 DEF Keeping
<1>3. IsFiniteSet(Keeping')
  BY <1>2, FS_RemoveElement DEF LedgerInv
<1>4. ASSUME NEW p \in Products PROVE supply'[p] = stock'[p] + Units(Sold', Keeping', p)
  <2>1. Keeping = Keeping' \cup {c}
    BY <1>2
  <2>2. Units(Sold, Keeping, p) = Sold[c][p] + Units(Sold, Keeping', p)
    BY <1>2, <1>3, <2>1, UnitsAdd DEF LedgerTypes, Keeping
  <2>3. Units(Sold, Keeping', p) \in Int /\ stock[p] \in Int /\ Sold[c][p] \in Int
    BY <1>2, <1>3, UnitsAreInt DEF LedgerTypes, Keeping
  <2>4. supply[p] = stock[p] + Units(Sold, Keeping, p)
    BY DEF LedgerInv
  <2> QED BY <1>1, <2>2, <2>3, <2>4
<1> QED BY <1>3, <1>4 DEF LedgerInv

\* No step of the ledger breaks its balance.
LEMMA LedgerInvStep ==
    ASSUME LedgerTypes, LedgerTypes', LedgerInv, [Ledger!Next]_(Ledger!ledgerVars)
    PROVE  LedgerInv'
<1>1. ASSUME NEW p \in Products, NEW n \in StockLevels, Ledger!Adjust(p, n) PROVE LedgerInv'
  <2>1. /\ stock' = [stock EXCEPT ![p] = n]
        /\ supply' = [supply EXCEPT ![p] = @ + n - stock[p]]
        /\ Sold' = Sold /\ Returned' = Returned
    BY <1>1 DEF Ledger!Adjust, Sold, Returned
  <2>2. Keeping' = Keeping
    BY <2>1 DEF Keeping
  <2>3. ASSUME NEW q \in Products PROVE supply'[q] = stock'[q] + Units(Sold', Keeping', q)
    <3>1. Units(Sold, Keeping, q) \in Int
      BY UnitsAreInt DEF LedgerInv, LedgerTypes, Keeping
    <3>2. supply[q] = stock[q] + Units(Sold, Keeping, q)
      BY DEF LedgerInv
    <3>3. stock[q] \in Int /\ supply[q] \in Int /\ n \in Int
      BY StockLevelsAssumption DEF LedgerTypes
    <3> QED BY <2>1, <2>2, <3>1, <3>2, <3>3 DEF LedgerTypes
  <2> QED BY <2>2, <2>3 DEF LedgerInv
<1>2. CASE UNCHANGED Ledger!ledgerVars
  <2>1. Sold' = Sold /\ Returned' = Returned /\ stock' = stock /\ supply' = supply
    BY <1>2 DEF Ledger!ledgerVars, Sold, Returned
  <2> QED BY <2>1 DEF LedgerInv, Keeping
<1> QED BY <1>1, <1>2, PurchaseConserves, ReturnConserves DEF Ledger!Next

\* Every unit ever provided is on the shelf or in one order that keeps it, and
\* the shelf owes none, at every step of every request.
THEOREM LedgerBalances == ASSUME ~Overlap PROVE Spec => []LedgerAddsUp
<1>1. SafetyInv /\ ChangeInv /\ CartInv => LedgerTypes
  <2> SUFFICES ASSUME SafetyInv, ChangeInv, CartInv PROVE LedgerTypes
    OBVIOUS
  <2>1. stock \in [Products -> Int] /\ supply \in [Products -> Int]
    BY DEF SafetyInv, TypeOK
  <2>2. Sold \in [Checkouts -> [Products -> Int]]
    BY DEF SafetyInv, TypeOK, Sold, NoLines
  <2>3. ASSUME NEW o \in Returned PROVE Sold[o] # NoLines
    <3>1. o \in Checkouts /\ Placed(o)
      BY DEF Returned, ChangeInv, RestockedIffCancelled, SafetyInv, TypeOK, Placed
    <3>2. Support(lines[o]) # {}
      BY <3>1 DEF CartInv, LinesAreBought
    <3> QED BY <3>1, <3>2 DEF Sold, Support, NoLines
  <2> QED BY <2>1, <2>2, <2>3 DEF LedgerTypes
<1>2. Init => LedgerInv
  <2> SUFFICES ASSUME Init PROVE LedgerInv
    OBVIOUS
  <2>1. Keeping = {}
    BY DEF Init, Keeping, Sold, Placed, NoLines
  <2>2. IsFiniteSet(Keeping)
    BY <2>1, FS_EmptySet
  <2>3. ASSUME NEW p \in Products PROVE Units(Sold, Keeping, p) = 0
    <3> DEFINE units == [o \in Keeping |-> Sold[o][p]]
    <3>1. Units(Sold, Keeping, p) = SumFunctionOnSet(units, Keeping)
      BY DEF Units
    <3>2. SumFunctionOnSet(units, {}) = 0
      BY SumOfEmpty
    <3> HIDE DEF units
    <3> QED BY <2>1, <3>1, <3>2
  <2>4. supply = stock /\ \A p \in Products : stock[p] \in Int
    <3>1. supply = stock /\ stock \in [Products -> StockLevels]
      BY DEF Init
    <3>2. \A n \in StockLevels : n \in Int
      BY StockLevelsAssumption
    <3>3. \A p \in Products : stock[p] \in StockLevels
      BY <3>1, Zenon
    <3> QED BY <3>1, <3>2, <3>3, Zenon
  <2>5. ASSUME NEW p \in Products PROVE supply[p] = stock[p] + Units(Sold, Keeping, p)
    BY <2>3, <2>4
  <2> QED BY <2>2, <2>5 DEF LedgerInv
<1>3. LedgerInv /\ SafetyInv => LedgerAddsUp
  BY LedgerInvMeans DEF LedgerAddsUp, Ledger!NeverOversold, SafetyInv, StockNonNegative
<1>4. Spec => [][Ledger!Next]_(Ledger!ledgerVars)
  BY ShelfImplementsLedger DEF ImplementsLedger, Ledger!Spec
<1>5. Spec => []LedgerTypes
  BY <1>1, SafetyInvHolds, ChangeInvHolds, CartInvHolds, PTL
<1>6. LedgerTypes /\ LedgerTypes' /\ LedgerInv /\ [Ledger!Next]_(Ledger!ledgerVars) => LedgerInv'
  BY LedgerInvStep
<1> QED BY <1>2, <1>3, <1>4, <1>5, <1>6, SafetyInvHolds, PTL DEF Spec
=============================================================================
