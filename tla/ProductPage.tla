----------------------------- MODULE ProductPage -----------------------------
(***************************************************************************)
(* The page of one product, and its card in the catalogue: the quantity    *)
(* stepper, "Add to cart" and the "Added" notes with their timers, while   *)
(* the product is refetched and its stock moves.                           *)
(***************************************************************************)
EXTENDS Naturals, FiniteSets

CONSTANTS
    Adds,       \* clicks on "Add to cart" of the page
    MaxStock,   \* bound on the stock
    MaxClicks   \* bound on the clicks on the card whose note is still shown

VARIABLES
    view,       \* ProductPage: loading, missing, or shown
    stock,      \* product.stock, as fetched last
    qty,        \* the stepper
    signedIn,   \* isAuthenticated
    call,       \* call[a]: idle, sent, added, or refused
    asked,      \* asked[a]: the quantity that a sent
    latest,     \* the newest add: only its callbacks are called
    added,      \* "Added to cart!" is shown
    timers,     \* timeouts that will take it away
    noted,      \* ProductCard: "Added" is shown
    cardTimers, \* its timeouts
    peak        \* history: the highest stock shown so far

pageVars == <<view, stock, qty, signedIn, peak>>
addVars == <<call, asked, latest, added, timers>>
cardVars == <<noted, cardTimers>>
vars == <<pageVars, addVars, cardVars>>

NoAdd == "none"

Init ==
    /\ view = "loading" /\ stock = 0 /\ qty = 1 /\ peak = 1
    /\ signedIn \in BOOLEAN
    /\ call = [a \in Adds |-> "idle"] /\ asked = [a \in Adds |-> 0]
    /\ latest = NoAdd /\ added = FALSE /\ timers = 0
    /\ noted = FALSE /\ cardTimers = 0

-----------------------------------------------------------------------------
(* The product arrives, is refetched with another stock, or is not found. *)

Highest(a, b) == IF a > b THEN a ELSE b

Fetched(n) ==
    /\ view # "missing"
    /\ view' = "shown" /\ stock' = n
    /\ peak' = Highest(peak, n)
    /\ UNCHANGED <<qty, signedIn, addVars, cardVars>>

NotFound ==
    /\ view = "loading"
    /\ view' = "missing"
    /\ UNCHANGED <<stock, qty, signedIn, peak, addVars, cardVars>>

\* The store of the tab gets or loses its token (Session.tla).
SignInOrOut ==
    /\ signedIn' = ~signedIn
    /\ UNCHANGED <<view, stock, qty, peak, addVars, cardVars>>

-----------------------------------------------------------------------------
(* What is shown: "-" always, "+" below the stock, "Add" of the page and of *)
(* the card while there is stock.                                          *)

Availability == IF stock = 0 THEN "out" ELSE IF stock <= 5 THEN "few" ELSE "in"

\* Mutant of Controls: "+" does not look at the stock.
ControlsAlways ==
    IF view # "shown" THEN {}
    ELSE {"minus", "plus"} \cup (IF Availability = "out" THEN {} ELSE {"add"})
Controls ==
    IF view # "shown" THEN {}
    ELSE {"minus"} \cup (IF qty >= stock THEN {} ELSE {"plus"})
                   \cup (IF Availability = "out" THEN {} ELSE {"add"})
CardControls == IF view = "shown" /\ Availability # "out" THEN {"add"} ELSE {}

Minus ==
    /\ "minus" \in Controls
    /\ qty' = IF qty > 1 THEN qty - 1 ELSE 1
    /\ UNCHANGED <<view, stock, signedIn, peak, addVars, cardVars>>

Plus ==
    /\ "plus" \in Controls /\ qty <= MaxStock
    /\ qty' = qty + 1
    /\ UNCHANGED <<view, stock, signedIn, peak, addVars, cardVars>>

-----------------------------------------------------------------------------
(* handleAdd of the page; a visitor who is not signed in gets a toast. *)

Add(a) ==
    /\ "add" \in Controls /\ signedIn
    /\ call[a] = "idle"
    /\ call' = [call EXCEPT ![a] = "sent"]
    /\ asked' = [asked EXCEPT ![a] = qty]
    /\ latest' = a
    /\ UNCHANGED <<pageVars, added, timers, cardVars>>

\* Mutant of Tells: an older add reports its success too.
TellsAlways(a) == TRUE
Tells(a) == latest = a

Succeeds(a) ==
    /\ call[a] = "sent"
    /\ call' = [call EXCEPT ![a] = "added"]
    /\ IF Tells(a) THEN added' = TRUE /\ timers' = timers + 1 ELSE UNCHANGED <<added, timers>>
    /\ UNCHANGED <<pageVars, asked, latest, cardVars>>

Fails(a) ==
    /\ call[a] = "sent"
    /\ call' = [call EXCEPT ![a] = "refused"]
    /\ UNCHANGED <<pageVars, asked, latest, added, timers, cardVars>>

\* The timer of any success takes the note away, also that of a newer one.
TimerFires ==
    /\ timers > 0
    /\ added' = FALSE /\ timers' = timers - 1
    /\ UNCHANGED <<pageVars, call, asked, latest, cardVars>>

\* handleAdd of the card calls its parent and notes "Added" whatever happens.
CardAdd ==
    /\ "add" \in CardControls /\ cardTimers < MaxClicks
    /\ noted' = TRUE /\ cardTimers' = cardTimers + 1
    /\ UNCHANGED <<pageVars, addVars>>

CardTimerFires ==
    /\ cardTimers > 0
    /\ noted' = FALSE /\ cardTimers' = cardTimers - 1
    /\ UNCHANGED <<pageVars, addVars>>

-----------------------------------------------------------------------------
Next ==
    \/ \E n \in 0 .. MaxStock : Fetched(n)
    \/ NotFound \/ SignInOrOut \/ Minus \/ Plus
    \/ \E a \in Adds : Add(a) \/ Succeeds(a) \/ Fails(a)
    \/ TimerFires \/ CardAdd \/ CardTimerFires

Spec == Init /\ [][Next]_vars

-----------------------------------------------------------------------------
(* Properties *)

\* Types; a note that is shown always has a timer that will take it away,
\* however many timers of older notes fire first; and however the stock moves
\* while the visitor steps, the page asks for at least one piece, and for no more
\* than it has shown to be available (ProductPage.tsx:49-64, 107-120).
TypeOK ==
    /\ \A a \in Adds : call[a] # "idle" => asked[a] >= 1 /\ asked[a] <= peak
    /\ view \in {"loading", "missing", "shown"}
    /\ stock \in 0 .. MaxStock /\ signedIn \in BOOLEAN
    /\ call \in [Adds -> {"idle", "sent", "added", "refused"}]
    /\ latest \in Adds \cup {NoAdd}
    /\ timers \in 0 .. Cardinality(Adds) /\ cardTimers \in 0 .. MaxClicks
    /\ added => timers > 0
    /\ noted => cardTimers > 0

\* What TypeOK rests on: the stepper stays between one piece and the most that
\* was ever shown, and every timer belongs to an add that succeeded.
StepperInv ==
    /\ TypeOK
    /\ asked \in [Adds -> Nat] /\ peak \in Nat /\ qty \in 1 .. peak /\ stock <= peak
    /\ added \in BOOLEAN /\ noted \in BOOLEAN
    /\ timers <= Cardinality({a \in Adds : call[a] = "added"})
=============================================================================
