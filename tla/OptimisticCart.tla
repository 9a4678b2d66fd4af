--------------------------- MODULE OptimisticCart ---------------------------
(***************************************************************************)
(* The cart in the browser: the TanStack query "cart", its optimistic      *)
(* mutations (useCart.ts) and the controls of CartPage and the catalogue   *)
(* that start them, against the server's cart.                             *)
(*                                                                         *)
(* A mutation is one click.  Clicks do not wait for each other, the        *)
(* network may swap their requests, and any answer may be lost.  A query   *)
(* holds the last data, whether it is invalidated, and at most one fetch,  *)
(* which is repeated once when it fails (App.tsx) and otherwise only when  *)
(* the visitor comes back to the window.                                   *)
(***************************************************************************)
EXTENDS Naturals, FiniteSets

CONSTANTS
    Products,
    Clicks,         \* mutations
    Stock,          \* stock of every product, as the server and the page know it
    MaxFailures     \* bound on the lost answers and failing fetches

VARIABLES
    server,     \* server[p]: CartItem.qty
    cache,      \* the data of the query, Missing before the first
    invalid,    \* is the query invalidated?
    fetch,      \* fetch: none, sent, or answered
    got,        \* what the server answered to the fetch
    tries,      \* attempts of the fetch so far
    call,       \* call[m]: idle, sent, accepted, refused, or settled
    op,         \* op[m]: what click m asks for
    previous,   \* previous[m]: the snapshot of onMutate
    patient,    \* a visitor who waits for each answer, in a window that stays open
    failures

queryVars == <<cache, invalid, fetch, got, tries>>
vars == <<server, queryVars, call, op, previous, patient, failures>>

Missing == <<>>
Empty == [p \in Products |-> 0]
NoOp == [kind |-> "none"]
InFlight(m) == call[m] \in {"sent", "accepted", "refused"}
Quiet == \A m \in Clicks : ~InFlight(m)

Init ==
    /\ server \in [Products -> 0 .. 1]
    /\ cache = Missing /\ invalid = FALSE
    /\ fetch = "sent" /\ got = Empty /\ tries = 1
    /\ call = [m \in Clicks |-> "idle"]
    /\ op = [m \in Clicks |-> NoOp]
    /\ previous = [m \in Clicks |-> Missing]
    /\ patient \in BOOLEAN /\ failures = 0

-----------------------------------------------------------------------------
(* The controls: CartPage has a row for every item of the cached cart with *)
(* "-", "+" (off at the stock) and a cross; the catalogue and the product  *)
(* page add to it.  "-" of the last piece and the cross remove the row.    *)

Rows == IF cache = Missing THEN {} ELSE {p \in Products : cache[p] > 0}

Controls ==
    {[kind |-> "add", item |-> p, qty |-> 1] : p \in Products}
    \cup {[kind |-> "update", item |-> p, qty |-> cache[p] + 1] :
             p \in {q \in Rows : cache[q] < Stock}}
    \cup {[kind |-> "update", item |-> p, qty |-> cache[p] - 1] :
             p \in {q \in Rows : cache[q] > 1}}
    \cup {[kind |-> "remove", item |-> p, qty |-> 0] : p \in Rows}

\* The updaters of useAddToCart, useUpdateCartItem and useRemoveCartItem.
Updated(cart, o) ==
    [cart EXCEPT ![o.item] =
        CASE o.kind = "add" -> @ + o.qty
          [] o.kind = "update" -> IF @ > 0 THEN o.qty ELSE 0
          [] o.kind = "remove" -> 0]

\* Mutant of CancelQueries: the fetch in flight goes on.
CancelNothing == UNCHANGED <<fetch, got, tries>>
CancelQueries == fetch' = "none" /\ got' = Empty /\ tries' = 0

\* onMutate: cancel the fetch, take a snapshot, show the outcome; and setting
\* the data makes the query valid.
Click(m, o) ==
    /\ call[m] = "idle" /\ o \in Controls
    /\ patient => Quiet
    /\ CancelQueries
    /\ previous' = [previous EXCEPT ![m] = cache]
    /\ cache' = Updated(IF cache = Missing THEN Empty ELSE cache, o)
    /\ invalid' = FALSE
    /\ op' = [op EXCEPT ![m] = o]
    /\ call' = [call EXCEPT ![m] = "sent"]
    /\ UNCHANGED <<server, failures>>

-----------------------------------------------------------------------------
(* CartController, as Cart.tla has it for requests that do not race. *)

Accepts(o) ==
    CASE o.kind = "add" -> server[o.item] + o.qty <= Stock
      [] o.kind = "update" -> server[o.item] > 0 /\ o.qty <= Stock
      [] o.kind = "remove" -> server[o.item] > 0

Serve(m) ==
    /\ call[m] = "sent"
    /\ server' = IF Accepts(op[m]) THEN Updated(server, op[m]) ELSE server
    /\ call' = [call EXCEPT ![m] = IF Accepts(op[m]) THEN "accepted" ELSE "refused"]
    /\ UNCHANGED <<queryVars, op, previous, failures>>

\* The request, or the answer to one that was carried out, is lost: the client
\* sees an error.
Lose(m) ==
    /\ call[m] \in {"sent", "accepted"} /\ failures < MaxFailures
    /\ failures' = failures + 1
    /\ call' = [call EXCEPT ![m] = "refused"]
    /\ UNCHANGED <<server, queryVars, op, previous>>

\* onError: back to the snapshot, if there is one.
RolledBack(m) ==
    IF call[m] = "refused" /\ previous[m] # Missing THEN previous[m] ELSE cache

\* Mutant of Invalidate: onSettled forgets the query.
InvalidateNothing == UNCHANGED <<invalid, fetch, got, tries>>
\* invalidateQueries: a fetch in flight is dropped for a new one.
Invalidate == invalid' = TRUE /\ fetch' = "sent" /\ got' = Empty /\ tries' = 1

Settle(m) ==
    /\ call[m] \in {"accepted", "refused"}
    /\ cache' = RolledBack(m)
    /\ Invalidate
    /\ call' = [call EXCEPT ![m] = "settled"]
    /\ op' = [op EXCEPT ![m] = NoOp]
    /\ previous' = [previous EXCEPT ![m] = Missing]
    /\ UNCHANGED <<server, failures>>

-----------------------------------------------------------------------------
(* The query (useCart) *)

FetchServed ==
    /\ fetch = "sent"
    /\ fetch' = "answered" /\ got' = server
    /\ UNCHANGED <<server, cache, invalid, tries, call, op, previous, failures>>

FetchAnswered ==
    /\ fetch = "answered"
    /\ cache' = got /\ invalid' = FALSE
    /\ fetch' = "none" /\ got' = Empty /\ tries' = 0
    /\ UNCHANGED <<server, call, op, previous, failures>>

\* Mutant of Retries: a query that fails is not repeated.
NoRetries == 0
Retries == 1

FetchFails ==
    /\ fetch \in {"sent", "answered"} /\ failures < MaxFailures
    /\ failures' = failures + 1
    /\ got' = Empty
    /\ IF tries <= Retries
          THEN fetch' = "sent" /\ tries' = tries + 1
          ELSE fetch' = "none" /\ tries' = 0
    /\ UNCHANGED <<server, cache, invalid, call, op, previous>>

\* The visitor comes back to the window, or opens another page, when the data
\* is invalidated or older than staleTime.
ComeBack ==
    /\ ~patient /\ fetch = "none"
    /\ fetch' = "sent" /\ tries' = 1
    /\ UNCHANGED <<server, cache, invalid, got, call, op, previous, failures>>

-----------------------------------------------------------------------------
Fetching == (FetchServed \/ FetchAnswered) /\ UNCHANGED patient
Answering(m) == (Serve(m) \/ Settle(m)) /\ UNCHANGED patient

Step ==
    \/ \E m \in Clicks : (\E o \in Controls : Click(m, o)) \/ Answering(m) \/ Lose(m)
    \/ Fetching \/ FetchFails \/ ComeBack

Next == Step /\ UNCHANGED patient

Spec == Init /\ [][Next]_vars

\* Requests are answered; nobody has to click or to come back.
Fairness == WF_vars(Fetching) /\ \A m \in Clicks : WF_vars(Answering(m))
FairSpec == Spec /\ Fairness

-----------------------------------------------------------------------------
(* Properties *)

\* Types; and a mutation in flight that has a snapshot took it from data the
\* query had.
TypeOK ==
    /\ server \in [Products -> 0 .. Stock]
    /\ cache = Missing \/ cache \in [Products -> Nat]
    /\ got \in [Products -> 0 .. Stock]
    /\ invalid \in BOOLEAN
    /\ fetch \in {"none", "sent", "answered"} /\ tries \in 0 .. Retries + 1
    /\ call \in [Clicks -> {"idle", "sent", "accepted", "refused", "settled"}]
    /\ \A m \in Clicks : op[m] = NoOp <=> ~InFlight(m)
    /\ patient \in BOOLEAN /\ failures \in 0 .. MaxFailures

\* When nothing is in flight and the query is not marked for a refetch, the
\* page shows the server's cart: however mutations overlapped, were swapped,
\* failed, or rolled back to a snapshot older than another's success
\* (useCart.ts:28-39).
SettledShowsServer ==
    Quiet /\ fetch = "none" /\ ~invalid /\ cache # Missing => cache = server

\* While a click is not answered the page keeps showing its outcome: no
\* answer of an older fetch puts the old quantity back in between
\* (useCart.ts:28).  For clicks that wait for each other, in a window that
\* stays open.
NoFlicker == patient => \A m \in Clicks : InFlight(m) /\ InFlight(m)' => cache' = cache

\* Why: with nothing in flight, data that is valid, or has been fetched, is the
\* server's; and a visitor who waits has one click in flight, and no fetch.
Fresh ==
    Quiet =>
        /\ fetch = "answered" => got = server
        /\ ~invalid /\ cache # Missing => cache = server
OneClick ==
    patient => \A m \in Clicks : InFlight(m) =>
        fetch = "none" /\ \A n \in Clicks : InFlight(n) => n = m
Carts == [Products -> Nat]
Ops == [kind : {"add", "update", "remove"}, item : Products, qty : Nat]
Snapshots ==
    /\ previous \in [Clicks -> {Missing} \cup Carts]
    /\ op \in [Clicks -> {NoOp} \cup Ops]

QueryInv == TypeOK /\ Snapshots /\ Fresh /\ OneClick

\* Answers arrive and at most one fails: the page comes to show the server's
\* cart and stays with it, without the visitor doing anything.
ShowsServer == cache = server
ConvergesToServer == <>[]ShowsServer
=============================================================================
