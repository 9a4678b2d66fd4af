------------------------------- MODULE MCShop -------------------------------
(***************************************************************************)
(* The small instance of Shop.tla for TLC.  Shop.cfg gives the sets; what  *)
(* needs an expression is here.                                            *)
(***************************************************************************)
EXTENDS Shop, TLC

CONSTANTS p1, p2, a1, a2, t1, t2, r1, r2, m1, m2, c1, c2, n1, n2, o1, o2

\* Each tab has a request, and VITE_API_URL has no path (frontend/.env.example).
OneEach == r1 :> t1 @@ r2 :> t2
OwnHost == <<>>

\* Two products of different prices.  UTC, a time zone behind it, and one that is
\* ahead of it on one day and changes back.
Prices2 == p1 :> 2 @@ p2 :> 3
Zone(standard, summer, summerDays) ==
    [standard |-> standard, summer |-> summer, summerDays |-> summerDays]
Zones3 == {Zone(0, 0, {}), Zone(-1, -1, {}), Zone(0, 1, {0})}

\* Neither categories nor names are told apart, and each part looks the same
\* when all its other pairs change places; so do tabs with their requests.
Pairs == a1 :> a2 @@ a2 :> a1 @@ t1 :> t2 @@ t2 :> t1 @@ r1 :> r2 @@ r2 :> r1
         @@ m1 :> m2 @@ m2 :> m1 @@ o1 :> o2 @@ o2 :> o1
Symmetry == Permutations({c1, c2}) \cup Permutations({n1, n2}) \cup {Pairs}
=============================================================================
