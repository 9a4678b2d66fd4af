------------------------------ MODULE MCOrders ------------------------------
(***************************************************************************)
(* Small instances of Orders.tla for TLC.                                  *)
(***************************************************************************)
EXTENDS Orders, TLC

CONSTANTS u1, u2, c1, c2, s1, s2

\* Two customers, one checkout each.
TwoCustomers == c1 :> u1 @@ c2 :> u2
\* One customer, two checkouts.
OneCustomer == c1 :> u1 @@ c2 :> u1
\* One customer, one checkout.
OneCheckout == c1 :> u1
=============================================================================
