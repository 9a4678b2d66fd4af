--------------------------- MODULE CatalogSearch ---------------------------
(***************************************************************************)
(* Searching the catalogue: the search field of CustomerHeader, the field, *)
(* filters and pages of CatalogPage, the address bar between them, and the *)
(* query that fetches what they add up to.                                 *)
(*                                                                         *)
(* Typed values are debounced: a timer copies the value of a field 300 ms  *)
(* after its last change.  The effects that follow a change of the         *)
(* debounced value, or of the address, are part of the step that makes it. *)
(***************************************************************************)
EXTENDS Naturals

CONSTANTS
    Words,      \* search texts, NoText among them
    NoText,
    Pages,      \* pages of the catalogue without filters; with one there is a page
    MaxInputs   \* bound on what the visitor does

VARIABLES
    q, debouncedQ,          \* CustomerHeader
    path, url,              \* location: catalog or other, and ?search=
    nav,                    \* a navigation under way, or Staying
    search, debouncedSearch, category, price, debouncedPrice, page,  \* CatalogPage
    shown,                  \* the query whose products are shown
    inputs

headerVars == <<q, debouncedQ>>
routeVars == <<path, url, nav>>
filterVars == <<category, price, debouncedPrice>>
searchVars == <<search, debouncedSearch>>
vars == <<headerVars, routeVars, searchVars, filterVars, page, shown, inputs>>

Staying == [path |-> "none", search |-> NoText]
To(p, w) == [path |-> p, search |-> w]

\* What is asked for, and how many pages it has (buildWhere, findMany): sorting
\* changes neither; a filter leaves one page, or none if it matches nothing.
Query == [search |-> debouncedSearch, category |-> category, price |-> debouncedPrice, page |-> page]
Filtered(query) == query.search # NoText \/ query.category \/ query.price
NumPages(query) == IF Filtered(query) THEN 1 ELSE Pages
Start == [search |-> NoText, category |-> FALSE, price |-> FALSE, page |-> 1]

Init ==
    /\ q = NoText /\ debouncedQ = NoText
    /\ path = "catalog" /\ url = NoText /\ nav = Staying
    /\ search = NoText /\ debouncedSearch = NoText
    /\ category = FALSE /\ price = FALSE /\ debouncedPrice = FALSE
    /\ page = 1 /\ shown = Start
    /\ inputs = 0

\* The visitor does something.
Input == inputs < MaxInputs /\ inputs' = inputs + 1
OnCatalog == path = "catalog"

-----------------------------------------------------------------------------
(* CustomerHeader, on every page *)

HeaderType(w) ==
    /\ Input
    /\ q' = w
    /\ UNCHANGED <<debouncedQ, routeVars, searchVars, filterVars, page, shown>>

HeaderDebounce ==
    /\ debouncedQ # q
    /\ debouncedQ' = q /\ nav' = To("catalog", q)
    /\ UNCHANGED <<q, path, url, searchVars, filterVars, page, shown, inputs>>

HeaderSubmit ==
    /\ Input
    /\ nav' = To("catalog", q)
    /\ UNCHANGED <<headerVars, path, url, searchVars, filterVars, page, shown>>

\* A link, to the catalogue or away from it.
Follow(p) ==
    /\ Input
    /\ nav' = To(p, NoText)
    /\ UNCHANGED <<headerVars, path, url, searchVars, filterVars, page, shown>>

-----------------------------------------------------------------------------
(* CatalogPage *)

\* Mutant of Synced: the effect sees the address of the render before.
SyncedStale(w) == IF w # url THEN search' = url /\ page' = 1 ELSE UNCHANGED <<search, page>>
\* The effect of searchParams.
Synced(w) == IF w # url THEN search' = w /\ page' = 1 ELSE UNCHANGED <<search, page>>

Arrive ==
    /\ nav # Staying
    /\ nav' = Staying /\ path' = nav.path /\ url' = nav.search
    /\ IF nav.path = "catalog" /\ OnCatalog
          THEN Synced(nav.search) /\ UNCHANGED <<debouncedSearch, filterVars, shown>>
          ELSE \* CatalogPage is mounted with its initial state, or unmounted.
               /\ search' = nav.search /\ debouncedSearch' = nav.search
               /\ category' = FALSE /\ price' = FALSE /\ debouncedPrice' = FALSE
               /\ page' = 1 /\ shown' = [Start EXCEPT !.search = nav.search]
    /\ UNCHANGED <<headerVars, inputs>>

\* The field that narrow screens have.
Type(w) ==
    /\ OnCatalog /\ Input
    /\ search' = w
    /\ UNCHANGED <<headerVars, routeVars, debouncedSearch, filterVars, page, shown>>

Debounce ==
    /\ OnCatalog /\ debouncedSearch # search
    /\ debouncedSearch' = search /\ page' = 1
    /\ nav' = To("catalog", search)
    /\ UNCHANGED <<headerVars, path, url, search, filterVars, shown, inputs>>

TypePrice(b) ==
    /\ OnCatalog /\ Input
    /\ price' = b
    /\ UNCHANGED <<headerVars, routeVars, searchVars, category, debouncedPrice, page, shown>>

DebouncePrice ==
    /\ OnCatalog /\ debouncedPrice # price
    /\ debouncedPrice' = price /\ page' = 1
    /\ UNCHANGED <<headerVars, routeVars, searchVars, category, price, shown, inputs>>

\* A pill, or another order of the products.
ChooseCategory(b) ==
    /\ OnCatalog /\ Input
    /\ category' = b /\ page' = 1
    /\ UNCHANGED <<headerVars, routeVars, searchVars, price, debouncedPrice, shown>>

\* The pager counts the pages of what is shown, which may still be the answer
\* to the query before (keepPreviousData).
SetPage(n) ==
    /\ OnCatalog /\ NumPages(shown) > 1 /\ Input
    /\ page' = n
    /\ UNCHANGED <<headerVars, routeVars, searchVars, filterVars, shown>>

\* "No products found": the button is there when nothing matches.
ClearFilters ==
    /\ OnCatalog /\ (Filtered(shown) \/ shown.page > NumPages(shown)) /\ Input
    /\ search' = NoText /\ category' = FALSE
    /\ nav' = To("catalog", NoText)
    /\ UNCHANGED <<headerVars, path, url, debouncedSearch, price, debouncedPrice, page, shown>>

FetchAnswered ==
    /\ OnCatalog /\ shown # Query
    /\ shown' = Query
    /\ UNCHANGED <<headerVars, routeVars, searchVars, filterVars, page, inputs>>

-----------------------------------------------------------------------------
Timers == Debounce \/ DebouncePrice \/ HeaderDebounce

Next ==
    \/ \E w \in Words : HeaderType(w) \/ Type(w)
    \/ \E b \in BOOLEAN : TypePrice(b) \/ ChooseCategory(b)
    \/ \E n \in 1 .. Pages : SetPage(n)
    \/ \E p \in {"catalog", "other"} : Follow(p)
    \/ HeaderSubmit \/ ClearFilters \/ Timers \/ Arrive \/ FetchAnswered

Spec == Init /\ [][Next]_vars

\* Timers fire, navigations and fetches end; nobody has to type.
Fairness ==
    /\ WF_vars(Debounce) /\ WF_vars(DebouncePrice) /\ WF_vars(HeaderDebounce)
    /\ WF_vars(Arrive) /\ WF_vars(FetchAnswered)
FairSpec == Spec /\ Fairness

-----------------------------------------------------------------------------
(* Properties *)

TypeOK ==
    /\ {q, debouncedQ, url, search, debouncedSearch} \subseteq Words
    /\ path \in {"catalog", "other"}
    /\ nav \in [path : {"catalog", "other"}, search : Words] \cup {Staying}
    /\ category \in BOOLEAN /\ price \in BOOLEAN /\ debouncedPrice \in BOOLEAN
    /\ page \in 1 .. Pages
    /\ shown \in [search : Words, category : BOOLEAN, price : BOOLEAN, page : 1 .. Pages]

\* The two search fields, the address and the debounced value pull at each
\* other (CatalogPage.tsx:45-60, CustomerHeader.tsx:18-25), but never for ever:
\* once the visitor stops, the products shown are those that the page's own
\* field and filters ask for.
ShowsWhatIsAsked == path = "catalog" => search = debouncedSearch /\ shown = Query
Settles == <>[]ShowsWhatIsAsked
=============================================================================
