---------------------------- MODULE StockLedger ----------------------------
(***************************************************************************)
(* What the shop promises about its warehouse, without carts, requests,    *)
(* transactions or locks: units leave the shelf only as the lines of one   *)
(* order, come back at most once per order, and otherwise change only when *)
(* an administrator restates the stock of a product.  Orders.tla is shown  *)
(* to implement this specification.                                        *)
(***************************************************************************)
EXTENDS Integers, Functions

CONSTANTS Products,     \* products that may be sold
          OrderIds,     \* identities of the orders that may be placed
          Levels,       \* stock levels an administrator may enter
          LineQtys      \* quantities an order line may carry

VARIABLES stock,        \* stock[p]: units of p on the shelf
          supply,       \* supply[p]: units of p the administrators ever provided
          sold,         \* sold[o][p]: units of p that order o took
          returned      \* orders whose units went back on the shelf

ledgerVars == <<stock, supply, sold, returned>>

NoLines == [p \in Products |-> 0]
Placed(o) == sold[o] # NoLines

Init ==
    /\ stock \in [Products -> Levels]
    /\ supply = stock
    /\ sold = [o \in OrderIds |-> NoLines]
    /\ returned = {}

Covers(l) == \A p \in Products : l[p] <= stock[p]

\* An order takes all its lines at once, and only if every line is covered.
Purchase(o, l) ==
    /\ ~Placed(o)
    /\ l # NoLines
    /\ Covers(l)
    /\ stock' = [p \in Products |-> stock[p] - l[p]]
    /\ sold' = [sold EXCEPT ![o] = l]
    /\ UNCHANGED <<supply, returned>>

\* A cancelled order gives all its lines back, once.
Return(o) ==
    /\ Placed(o)
    /\ o \notin returned
    /\ stock' = [p \in Products |-> stock[p] + sold[o][p]]
    /\ returned' = returned \cup {o}
    /\ UNCHANGED <<supply, sold>>

\* An administrator restates the stock of one product.
Adjust(p, n) ==
    /\ stock' = [stock EXCEPT ![p] = n]
    /\ supply' = [supply EXCEPT ![p] = @ + n - stock[p]]
    /\ UNCHANGED <<sold, returned>>

Next ==
    \/ \E o \in OrderIds, l \in [Products -> LineQtys \cup {0}] : Purchase(o, l)
    \/ \E o \in OrderIds : Return(o)
    \/ \E p \in Products, n \in Levels : Adjust(p, n)

Spec == Init /\ [][Next]_ledgerVars

-----------------------------------------------------------------------------
\* The orders that still keep their units, and the units of p among them.
Keeping == {o \in OrderIds : Placed(o)} \ returned
Outstanding(p) == SumFunction([o \in Keeping |-> sold[o][p]])

\* Every unit ever provided is either on the shelf or in one order that was
\* not cancelled: none is lost and none is sold twice.
Conserved ==
    \A p \in Products : supply[p] = stock[p] + Outstanding(p)

\* The shelf never owes a unit.
NeverOversold == \A p \in Products : stock[p] >= 0
=============================================================================
