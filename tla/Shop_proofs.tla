----------------------------- MODULE Shop_proofs -----------------------------
(***************************************************************************)
(* The parts with less state: the product page, the catalogue's search,    *)
(* the reports and their export.  With the other modules' theorems, every  *)
(* part of the shop keeps its types; the reports that add money up agree   *)
(* with the orders, at every hour and in every time zone; and the export   *)
(* is read back as what was written.                                       *)
(***************************************************************************)
EXTENDS AdminPages_proofs, Accounts_proofs, CustomerPages_proofs, Sums_proofs,
        SequenceTheorems

-----------------------------------------------------------------------------
(* ProductPage: a note that is shown has a timer, and no more is asked for *)
(* than was shown to be there.                                             *)

LEMMA DetailStarts ==
    ASSUME Init, part = "product page" PROVE Detail!Init
BY DEF Init

LEMMA DetailSteps ==
    ASSUME [Next]_slots, part = "product page"
    PROVE  part' = "product page" /\ [Detail!Next]_Detail!vars
BY DEF Next, slots, Detail!vars, Detail!pageVars, Detail!addVars, Detail!cardVars

LEMMA SameCount == \A S : Detail!Cardinality(S) = Cardinality(S)
BY DEF Detail!Cardinality, Cardinality

\* The adds that succeeded, which the timers are counted against.
Succeeded(call) == {a \in Adds : call[a] = "added"}

LEMMA SucceededCount ==
    ASSUME NEW call
    PROVE  /\ IsFiniteSet(Succeeded(call)) /\ Cardinality(Adds) \in Nat
           /\ Cardinality(Succeeded(call)) \in 0 .. Cardinality(Adds)
<1>1. Succeeded(call) \in SUBSET Adds
  BY DEF Succeeded
<1> QED BY <1>1, VisitAssumption, FS_Subset, FS_CardinalityType

\* What is said of the notes, and the rest.
Notes == s8 \in BOOLEAN /\ s10 \in BOOLEAN /\ (s8 => s9 > 0) /\ (s10 => s11 > 0)
Stepper ==
    /\ \A a \in Adds : s5[a] # "idle" => s6[a] >= 1 /\ s6[a] <= s12
    /\ s1 \in {"loading", "missing", "shown"}
    /\ s2 \in 0 .. MaxStock /\ s4 \in BOOLEAN
    /\ s5 \in [Adds -> {"idle", "sent", "added", "refused"}]
    /\ s6 \in [Adds -> Nat] /\ s12 \in Nat /\ s3 \in 1 .. s12 /\ s2 <= s12
    /\ s7 \in Adds \cup {Detail!NoAdd}
    /\ s9 \in 0 .. Cardinality(Adds) /\ s9 <= Cardinality(Succeeded(s5))
    /\ s11 \in 0 .. MaxClicks

LEMMA StepperParts ==
    /\ Detail!StepperInv <=> Stepper /\ Notes
    /\ Detail!StepperInv' <=> Stepper' /\ Notes'
BY SameCount, Zenon DEF Detail!StepperInv, Detail!TypeOK, Stepper, Notes, Succeeded

\* A note stays with its timer, starts with one, or goes.
LEMMA NotesKept ==
    ASSUME Notes, s8' \in BOOLEAN, s10' \in BOOLEAN,
           (s8' = s8 /\ s9' = s9) \/ s8' = FALSE \/ s9' > 0,
           (s10' = s10 /\ s11' = s11) \/ s10' = FALSE \/ s11' > 0
    PROVE  Notes'
BY Zenon DEF Notes

\* The stepper starts at one piece.
LEMMA StepperInit ==
    ASSUME Detail!Init PROVE Detail!StepperInv
<1>1. Stepper
  <2>1. 0 \in 0 .. Cardinality(Adds) /\ 0 <= Cardinality(Succeeded(s5))
    BY SucceededCount
  <2> QED BY <2>1, BoundsAssumption DEF Detail!Init, Stepper, Detail!NoAdd
<1>2. Notes
  BY Zenon DEF Detail!Init, Notes
<1> QED BY <1>1, <1>2, StepperParts

\* The product, the session and the stepper: "+" stops below the stock that is shown.
LEMMA ProductKeepsStepper ==
    ASSUME Stepper, Notes,
           \/ \E n \in 0 .. MaxStock : Detail!Fetched(n)
           \/ Detail!NotFound \/ Detail!SignInOrOut \/ Detail!Minus \/ Detail!Plus
    PROVE  Stepper' /\ Notes'
<1> SUFFICES Stepper' /\ UNCHANGED <<s8, s9, s10, s11>>
  BY NotesKept DEF Notes
<1> USE BoundsAssumption DEF Stepper, Detail!addVars, Detail!cardVars
<1>1. ASSUME NEW n \in 0 .. MaxStock, Detail!Fetched(n)
      PROVE  Stepper' /\ UNCHANGED <<s8, s9, s10, s11>>
  BY <1>1 DEF Detail!Fetched, Detail!Highest
<1>2. CASE Detail!NotFound \/ Detail!SignInOrOut
  <2>1. s4' \in BOOLEAN
    BY <1>2 DEF Detail!NotFound, Detail!SignInOrOut
  <2>2. UNCHANGED <<s2, s3, s12, s5, s6, s7, s8, s9, s10, s11>> /\ s1' \in {s1, "missing"}
    BY <1>2 DEF Detail!NotFound, Detail!SignInOrOut
  <2> QED BY <2>1, <2>2
<1>3. CASE Detail!Minus
  BY <1>3 DEF Detail!Minus
<1>4. CASE Detail!Plus
  BY <1>4 DEF Detail!Plus, Detail!Controls
<1> QED BY <1>1, <1>2, <1>3, <1>4

\* An add asks for what the stepper shows; a success starts a timer at most.
LEMMA AddsKeepStepper ==
    ASSUME Stepper, Notes, NEW a \in Adds,
           Detail!Add(a) \/ Detail!Succeeds(a) \/ Detail!Fails(a)
    PROVE  Stepper' /\ Notes'
<1> DEFINE call == s5  timers == s9
<1>1. /\ call \in [Adds -> {"idle", "sent", "added", "refused"}]
      /\ timers \in 0 .. Cardinality(Succeeded(call))
  BY SucceededCount DEF Stepper
<1>2. timers' <= Cardinality(Succeeded(call'))
  <2>1. CASE Detail!Add(a) \/ Detail!Fails(a)
    <3>1. Succeeded(call') = Succeeded(call) /\ timers' = timers
      BY <1>1, <2>1 DEF Detail!Add, Detail!Fails, Succeeded
    <3> QED BY <1>1, <3>1
  <2>2. CASE Detail!Succeeds(a)
    <3>1. Succeeded(call') = Succeeded(call) \cup {a} /\ a \notin Succeeded(call)
      BY <1>1, <2>2 DEF Detail!Succeeds, Succeeded
    <3>2. Cardinality(Succeeded(call')) = Cardinality(Succeeded(call)) + 1
      BY <3>1, SucceededCount, FS_AddElement
    <3>3. timers' \in {timers, timers + 1}
      BY <2>2 DEF Detail!Succeeds
    <3> QED BY <1>1, <3>2, <3>3, SucceededCount
  <2> QED BY <2>1, <2>2
<1>3. (s8' = s8 /\ timers' = timers) \/ (s8' = TRUE /\ timers' = timers + 1)
  BY DEF Detail!Add, Detail!Succeeds, Detail!Fails
<1>4. timers' \in 0 .. Cardinality(Adds) /\ (timers' = timers + 1 => timers' > 0)
  BY <1>1, <1>2, <1>3, SucceededCount
<1>5. call' \in [Adds -> {"idle", "sent", "added", "refused"}] /\ s7' \in {s7, a}
  BY <1>1 DEF Detail!Add, Detail!Succeeds, Detail!Fails
<1>6. s6' \in [Adds -> Nat] /\ \A b \in Adds : call'[b] # "idle" => s6'[b] >= 1 /\ s6'[b] <= s12
  <2>1. CASE Detail!Add(a)
    BY <1>1, <2>1 DEF Stepper, Detail!Add
  <2>2. CASE Detail!Succeeds(a) \/ Detail!Fails(a)
    BY <1>1, <2>2 DEF Stepper, Detail!Succeeds, Detail!Fails
  <2> QED BY <2>1, <2>2
<1>7. UNCHANGED <<s1, s2, s3, s4, s12, s10, s11>>
  BY DEF Detail!Add, Detail!Succeeds, Detail!Fails, Detail!pageVars, Detail!cardVars
<1>8. Stepper'
  BY <1>2, <1>4, <1>5, <1>6, <1>7 DEF Stepper
<1>9. Notes'
  BY <1>3, <1>4, <1>7, NotesKept, Zenon DEF Notes
<1> QED BY <1>8, <1>9

\* Timers take the notes away.
LEMMA TimersKeepStepper ==
    ASSUME Stepper, Notes,
           Detail!TimerFires \/ Detail!CardAdd \/ Detail!CardTimerFires
    PROVE  Stepper' /\ Notes'
<1> USE DEF Detail!TimerFires, Detail!CardAdd, Detail!CardTimerFires, Detail!pageVars,
            Detail!addVars, Detail!cardVars
<1>1. (s9' = s9 \/ (s9 > 0 /\ s9' = s9 - 1)) /\ UNCHANGED <<s1, s2, s3, s4, s12, s5, s6, s7>>
  OBVIOUS
<1>2. s11' \in 0 .. MaxClicks
  BY BoundsAssumption DEF Stepper
<1>3. Stepper'
  BY <1>1, <1>2, SucceededCount DEF Stepper
<1>4. /\ (s8' = s8 /\ s9' = s9) \/ s8' = FALSE
      /\ (s10' = s10 /\ s11' = s11) \/ s10' = FALSE \/ (s10' = TRUE /\ s11' > 0)
  BY DEF Stepper
<1>5. Notes'
  BY <1>4, NotesKept, Zenon DEF Notes
<1> QED BY <1>3, <1>5

LEMMA StepperStep ==
    ASSUME Detail!StepperInv, [Detail!Next]_Detail!vars PROVE Detail!StepperInv'
<1>1. CASE UNCHANGED Detail!vars
  <2>1. UNCHANGED <<s1, s2, s3, s4, s5, s6, s7, s8, s9, s10, s11, s12>>
    BY <1>1 DEF Detail!vars, Detail!pageVars, Detail!addVars, Detail!cardVars
  <2>2. Stepper' /\ Notes'
    BY <2>1, StepperParts, NotesKept DEF Stepper, Notes
  <2> QED BY <2>2, StepperParts
<1>2. CASE Detail!Next
  BY <1>2, StepperParts, ProductKeepsStepper, AddsKeepStepper, TimersKeepStepper
     DEF Detail!Next
<1> QED BY <1>1, <1>2

\* For any clicks, stocks and timers of a visit.
THEOREM StepperInvHolds == Spec => [](part = "product page" => Detail!StepperInv)
<1>1. Init => (part = "product page" => Detail!StepperInv)
  BY DetailStarts, StepperInit
<1>2. (part = "product page" => Detail!StepperInv) /\ [Next]_slots
         => (part = "product page" => Detail!StepperInv)'
  <2>1. [Next]_slots => part' = part
    BY DEF Next, slots
  <2> QED BY <2>1, DetailSteps, StepperStep
<1> QED BY <1>1, <1>2, PTL DEF Spec

-----------------------------------------------------------------------------
(* CatalogPage and CustomerHeader *)

LEMMA CatalogStarts ==
    ASSUME Init, part = "catalog" PROVE Catalog!Init
BY DEF Init

LEMMA CatalogSteps ==
    ASSUME [Next]_slots, part = "catalog"
    PROVE  part' = "catalog" /\ [Catalog!Next]_Catalog!vars
BY DEF Next, slots, Catalog!vars, Catalog!headerVars, Catalog!routeVars, Catalog!searchVars,
       Catalog!filterVars

\* Where the address bar may be sent, and what may be asked for.
Destinations == [path : {"catalog", "other"}, search : Words]
Queries == [search : Words, category : BOOLEAN, price : BOOLEAN, page : 1 .. Pages]

LEMMA CatalogInit ==
    ASSUME Catalog!Init PROVE Catalog!TypeOK
<1>1. NoText \in Words /\ 1 \in 1 .. Pages
  BY VisitAssumption
<1>2. Catalog!Start \in Queries
  BY <1>1 DEF Queries, Catalog!Start
<1> QED BY <1>1, <1>2 DEF Catalog!Init, Catalog!TypeOK, Queries

\* A step keeps to the words, the pages and the filters there are.
LEMMA CatalogStep ==
    ASSUME Catalog!TypeOK, [Catalog!Next]_Catalog!vars PROVE Catalog!TypeOK'
<1> USE DEF Catalog!TypeOK, Catalog!headerVars, Catalog!routeVars, Catalog!searchVars,
            Catalog!filterVars
<1>0. NoText \in Words /\ 1 \in 1 .. Pages
  BY VisitAssumption
<1>1. CASE UNCHANGED Catalog!vars
  BY <1>1 DEF Catalog!vars
<1>2. ASSUME NEW w \in Words, Catalog!HeaderType(w) \/ Catalog!Type(w) PROVE Catalog!TypeOK'
  BY <1>2 DEF Catalog!HeaderType, Catalog!Type
<1>3. ASSUME NEW b \in BOOLEAN, Catalog!TypePrice(b) \/ Catalog!ChooseCategory(b)
      PROVE  Catalog!TypeOK'
  BY <1>0, <1>3 DEF Catalog!TypePrice, Catalog!ChooseCategory
<1>4. ASSUME NEW n \in 1 .. Pages, Catalog!SetPage(n) PROVE Catalog!TypeOK'
  BY <1>4 DEF Catalog!SetPage
<1>5. ASSUME NEW p \in {"catalog", "other"}, NEW w \in Words, s5' = Catalog!To(p, w)
      PROVE  s5' \in Destinations
  BY <1>5 DEF Catalog!To, Destinations
<1>6. ASSUME NEW p \in {"catalog", "other"}, Catalog!Follow(p) PROVE Catalog!TypeOK'
  BY <1>0, <1>5, <1>6 DEF Catalog!Follow, Destinations
<1>7. CASE Catalog!HeaderSubmit \/ Catalog!HeaderDebounce
  BY <1>5, <1>7 DEF Catalog!HeaderSubmit, Catalog!HeaderDebounce, Destinations
<1>8. CASE Catalog!ClearFilters \/ Catalog!Debounce \/ Catalog!DebouncePrice
  BY <1>0, <1>5, <1>8
     DEF Catalog!ClearFilters, Catalog!Debounce, Catalog!DebouncePrice, Destinations
<1>9. CASE Catalog!Arrive
  <2>1. s5.path \in {"catalog", "other"} /\ s5.search \in Words
    BY <1>9 DEF Catalog!Arrive
  <2>2. [Catalog!Start EXCEPT !.search = s5.search] \in Queries
    BY <1>0, <2>1 DEF Catalog!Start, Queries
  <2> QED
    BY <1>0, <1>9, <2>1, <2>2 DEF Catalog!Arrive, Catalog!Synced, Queries
<1>10. CASE Catalog!FetchAnswered
  <2>1. Catalog!Query \in Queries
    BY DEF Catalog!Query, Queries
  <2> QED BY <1>10, <2>1 DEF Catalog!FetchAnswered, Queries
<1> QED
  BY <1>1, <1>2, <1>3, <1>4, <1>6, <1>7, <1>8, <1>9, <1>10 DEF Catalog!Next, Catalog!Timers

LEMMA CatalogTypes == Spec => [](part = "catalog" => Catalog!TypeOK)
<1>1. Init => (part = "catalog" => Catalog!TypeOK)
  BY CatalogStarts, CatalogInit
<1>2. (part = "catalog" => Catalog!TypeOK) /\ [Next]_slots
         => (part = "catalog" => Catalog!TypeOK)'
  <2>1. [Next]_slots => part' = part
    BY DEF Next, slots
  <2> QED BY <2>1, CatalogSteps, CatalogStep
<1> QED BY <1>1, <1>2, PTL DEF Spec

-----------------------------------------------------------------------------
(* The export *)

LEMMA ExportStarts ==
    ASSUME Init, part = "export" PROVE Export!Init
BY DEF Init

LEMMA ExportSteps ==
    ASSUME [Next]_slots, part = "export"
    PROVE  part' = "export" /\ [Export!Next]_Export!vars
BY DEF Next, slots, Export!vars

Line == [customer : Seq(Export!Chars), product : Seq(Export!Chars)]

LEMMA ExportStep ==
    ASSUME Export!TypeOK, [Export!Next]_Export!vars PROVE Export!TypeOK'
<1>1. CASE UNCHANGED Export!vars
  BY <1>1 DEF Export!TypeOK, Export!vars
<1>2. CASE Export!AddLine
  <2>1. [customer |-> <<>>, product |-> <<>>] \in Line
    BY DEF Line
  <2> QED BY <1>2, <2>1, BoundsAssumption DEF Export!AddLine, Export!TypeOK, Line
<1>3. ASSUME NEW k \in DOMAIN s1, NEW field \in {"customer", "product"}, NEW c \in Export!Chars,
             Export!Type(k, field, c)
      PROVE  Export!TypeOK'
  <2>1. s1 \in Seq(Line) /\ s1[k] \in Line
    <3>1. s1 \in Seq(Line) /\ k \in 1 .. Len(s1)
      BY DEF Export!TypeOK, Line
    <3> QED BY <3>1, ElementOfSeq
  <2>2. Append(s1[k][field], c) \in Seq(Export!Chars)
    BY <2>1 DEF Line
  <2>3. [s1[k] EXCEPT ![field] = Append(@, c)] \in Line
    BY <2>1, <2>2 DEF Line
  <2>4. s1' = [s1 EXCEPT ![k] = [s1[k] EXCEPT ![field] = Append(@, c)]]
    BY <1>3 DEF Export!Type
  <2>5. s1' \in Seq(Line) /\ Len(s1') = Len(s1)
    BY <2>1, <2>3, <2>4, ExceptSeq
  <2>6. Len(s1) <= MaxLines /\ s2' \in 0 .. MaxChars
    <3>1. MaxChars \in Nat
      BY BoundsAssumption
    <3> QED BY <1>3, <3>1 DEF Export!Type, Export!TypeOK
  <2> QED BY <2>5, <2>6 DEF Export!TypeOK, Line
<1> QED BY <1>1, <1>2, <1>3 DEF Export!Next

LEMMA ExportTypes == Spec => [](part = "export" => Export!TypeOK)
<1>1. Init => (part = "export" => Export!TypeOK)
  BY ExportStarts, BoundsAssumption DEF Export!Init, Export!TypeOK
<1>2. (part = "export" => Export!TypeOK) /\ [Next]_slots
         => (part = "export" => Export!TypeOK)'
  <2>1. [Next]_slots => part' = part
    BY DEF Next, slots
  <2> QED BY <2>1, ExportSteps, ExportStep
<1> QED BY <1>1, <1>2, PTL DEF Spec

-----------------------------------------------------------------------------
(* The reports *)

LEMMA ReportsStart ==
    ASSUME Init, part = "reports" PROVE Reports!Init
BY DEF Init

LEMMA ReportsStep ==
    ASSUME [Next]_slots, part = "reports"
    PROVE  part' = "reports" /\ [Reports!Next]_Reports!vars
BY DEF Next, slots, Reports!vars

\* The orders of the first t hours.
OrdersUpTo(t) == [createdAt : 0 .. t, status : {"NEW", "CANCELLED"}, items : Reports!ItemLists]

LEMMA LedgerTypesStep ==
    ASSUME Reports!TypeOK, [Reports!Next]_Reports!vars PROVE Reports!TypeOK'
<1> USE DEF Reports!TypeOK, OrdersUpTo
<1>0. MaxHours \in Nat
  BY BoundsAssumption
<1>1. CASE UNCHANGED Reports!vars
  BY <1>1 DEF Reports!vars
<1>2. ASSUME NEW S \in (SUBSET Products) \ {{}}, NEW q \in [S -> Qtys], Reports!PlaceOrder(q)
      PROVE  Reports!TypeOK'
  <2> DEFINE items == [p \in DOMAIN q |-> [name |-> s3[p], qty |-> q[p]]]
             order == [createdAt |-> s1, status |-> "NEW", items |-> items]
  <2>1. items \in [S -> [name : Names, qty : Qtys]]
    OBVIOUS
  <2>2. items \in Reports!ItemLists
    BY <2>1 DEF Reports!ItemLists
  <2>3. order \in OrdersUpTo(s1)
    BY <2>2
  <2>4. s4' = Append(s4, order) /\ UNCHANGED <<s1, s2, s3, s5>>
    BY <1>2 DEF Reports!PlaceOrder
  <2> HIDE DEF order
  <2>5. s4' \in Seq(OrdersUpTo(s1))
    BY <2>3, <2>4
  <2> QED BY <2>4, <2>5
<1>3. ASSUME NEW o \in DOMAIN s4, Reports!CancelOrder(o) PROVE Reports!TypeOK'
  <2>1. s4 \in Seq(OrdersUpTo(s1)) /\ o \in 1 .. Len(s4)
    OBVIOUS
  <2>2. s4[o] \in OrdersUpTo(s1)
    BY <2>1, ElementOfSeq
  <2>3. [s4[o] EXCEPT !.status = "CANCELLED"] \in OrdersUpTo(s1)
    BY <2>2
  <2>4. s4' = [s4 EXCEPT ![o] = [s4[o] EXCEPT !.status = "CANCELLED"]] /\ UNCHANGED <<s1, s2, s3, s5>>
    BY <1>3 DEF Reports!CancelOrder
  <2>5. s4' \in Seq(OrdersUpTo(s1))
    BY <2>1, <2>3, <2>4, ExceptSeq
  <2> QED BY <2>4, <2>5
<1>4. ASSUME NEW p \in Products, NEW n \in Names, Reports!Rename(p, n) PROVE Reports!TypeOK'
  BY <1>4 DEF Reports!Rename
<1>5. CASE Reports!Tick
  <2>1. s1' = s1 + 1 /\ s1 \in 0 .. MaxHours /\ s1 < MaxHours /\ UNCHANGED <<s2, s3, s4, s5>>
    BY <1>5 DEF Reports!Tick
  <2>2. OrdersUpTo(s1) \subseteq OrdersUpTo(s1')
    BY <1>0, <2>1
  <2>3. s4 \in Seq(OrdersUpTo(s1))
    OBVIOUS
  <2> HIDE DEF OrdersUpTo
  <2>4. s4 \in Seq(OrdersUpTo(s1'))
    BY <2>2, <2>3
  <2> USE DEF OrdersUpTo
  <2> QED BY <1>0, <2>1, <2>4
<1> QED BY <1>1, <1>2, <1>3, <1>4, <1>5 DEF Reports!Next

LEMMA ReportsTypes == Spec => [](part = "reports" => Reports!TypeOK)
<1>1. Init => (part = "reports" => Reports!TypeOK)
  <2>1. ASSUME Reports!Init PROVE Reports!TypeOK
    <3>1. MaxHours \in Nat
      BY BoundsAssumption
    <3>2. \E n \in Names : s3 = [p \in Products |-> n]
      BY <2>1 DEF Reports!Init
    <3>3. s3 \in [Products -> Names]
      BY <3>2
    <3>4. \A X : <<>> \in Seq(X)
      OBVIOUS
    <3>5. s1 = 0 /\ s2 \in Zones /\ s4 = <<>> /\ s5 = {}
      BY <2>1 DEF Reports!Init
    <3> QED BY <3>1, <3>3, <3>4, <3>5 DEF Reports!TypeOK
  <2> QED BY <2>1, ReportsStart
<1>2. (part = "reports" => Reports!TypeOK) /\ [Next]_slots
         => (part = "reports" => Reports!TypeOK)'
  <2>1. [Next]_slots => part' = part
    BY DEF Next, slots
  <2> QED BY <2>1, ReportsStep, LedgerTypesStep
<1> QED BY <1>1, <1>2, PTL DEF Spec

-----------------------------------------------------------------------------
\* What the invariants of the parts say of their types.
LEMMA PartTypes ==
    /\ Basket!CartInv => Basket!TypeOK
    /\ Browser!SessionInv => Browser!TypeOK
    /\ Visitor!SignInInv => Visitor!TypeOK
    /\ CartPage!QueryInv => CartPage!TypeOK
    /\ Detail!StepperInv => Detail!TypeOK
    /\ Checkout!CheckoutInv => Checkout!TypeOK
    /\ ProductDialog!DialogInv => ProductDialog!TypeOK
    /\ CategoryTable!TableInv => CategoryTable!TypeOK
    /\ Status!PageInv => Status!TypeOK
    /\ Pipeline!GuardInv => Pipeline!TypeOK
BY Zenon DEF Basket!CartInv, Browser!SessionInv, Visitor!SignInInv, CartPage!QueryInv, Detail!StepperInv,
       Checkout!CheckoutInv, ProductDialog!DialogInv, CategoryTable!TableInv, Status!PageInv,
       Pipeline!GuardInv

\* Every part of the shop keeps its types, and what its module says with them.
THEOREM TypesHold == Spec => []TypesOK
<1>1. Spec => [](part = "cart" => Basket!TypeOK)
  BY CartInvHolds, PartTypes, PTL
<1>2. Spec => [](part = "session" => Browser!TypeOK)
  BY SessionInvHolds, PartTypes, PTL
<1>3. Spec => [](part = "sign in" => Visitor!TypeOK)
  BY SignInInvHolds, PartTypes, PTL
<1>4. Spec => [](part = "cart page" => CartPage!TypeOK)
  BY QueryInvHolds, PartTypes, PTL
<1>5. Spec => [](part = "product page" => Detail!TypeOK)
  BY StepperInvHolds, PartTypes, PTL
<1>6. Spec => [](part = "checkout" => Checkout!TypeOK)
  BY CheckoutInvHolds, PartTypes, PTL
<1>7. Spec => [](part = "products" => ProductDialog!TypeOK)
  BY DialogInvHolds, PartTypes, PTL
<1>8. Spec => [](part = "categories" => CategoryTable!TypeOK)
  BY TableInvHolds, PartTypes, PTL
<1>9. Spec => [](part = "status" => Status!TypeOK)
  BY PageInvHolds, PartTypes, PTL
<1>10. Spec => [](part = "requests" => Pipeline!TypeOK)
  BY GuardInvHolds, PartTypes, PTL
<1> DEFINE Customers ==
             /\ part = "cart" => Basket!TypeOK
             /\ part = "cart page" => CartPage!TypeOK
             /\ part = "product page" => Detail!TypeOK
             /\ part = "checkout" => Checkout!TypeOK
             /\ part = "catalog" => Catalog!TypeOK
           Accounts ==
             /\ part = "session" => Browser!TypeOK
             /\ part = "sign in" => Visitor!TypeOK
             /\ part = "requests" => Pipeline!TypeOK
           Administrators ==
             /\ part = "products" => ProductDialog!TypeOK
             /\ part = "categories" => CategoryTable!TypeOK
             /\ part = "status" => Status!TypeOK
             /\ part = "reports" => Reports!TypeOK
             /\ part = "export" => Export!TypeOK
<1>11. Spec => []Customers
  BY <1>1, <1>4, <1>5, <1>6, CatalogTypes, PTL
<1>12. Spec => []Accounts
  BY <1>2, <1>3, <1>10, PTL
<1>13. Spec => []Administrators
  BY <1>7, <1>8, <1>9, ReportsTypes, ExportTypes, PTL
<1>14. Customers /\ Accounts /\ Administrators => TypesOK
  BY DEF TypesOK
<1> HIDE DEF Customers, Accounts, Administrators
<1> QED BY <1>11, <1>12, <1>13, <1>14, PTL

-----------------------------------------------------------------------------
(* salesByDay: the curve has the money of the buckets, and the buckets     *)
(* miss nothing but the last hours of a zone that is not UTC, and the date *)
(* in UTC of a night in which the clock changes back to UTC or behind it.  *)

LEMMA ReportsSum == \A f : Reports!SumFunction(f) = SumFunctionOnSet(f, DOMAIN f)
BY DEF Reports!SumFunction, Reports!SumFunctionOnSet, Reports!FoldFunctionOnSet,
       Reports!MapThenFoldSet, SumFunctionOnSet, FoldFunctionOnSet, MapThenFoldSet

\* What the orders cost.
Money == [o \in DOMAIN s4 |-> Reports!TotalAmount(s4[o].items)]

\* An order is for finitely many products, at natural prices.
LEMMA OrdersCost ==
    ASSUME Reports!TypeOK, NEW o \in DOMAIN s4
    PROVE  /\ IsFiniteSet(DOMAIN s4[o].items) /\ DOMAIN s4[o].items \subseteq Products
           /\ \A p \in DOMAIN s4[o].items : Reports!Amount(s4[o].items, p) \in Nat
           /\ s4[o].createdAt \in 0 .. s1
           /\ Money[o] \in Int
<1> DEFINE items == s4[o].items
<1>1. s4 \in Seq(OrdersUpTo(s1)) /\ o \in 1 .. Len(s4)
  BY DEF Reports!TypeOK, OrdersUpTo
<1>2. s4[o] \in OrdersUpTo(s1)
  BY <1>1, ElementOfSeq
<1>3. PICK S \in SUBSET Products : items \in [S -> [name : Names, qty : Qtys]]
  BY <1>2 DEF OrdersUpTo, Reports!ItemLists
<1>4. IsFiniteSet(S)
  BY FS_Subset, ProductsAssumption
<1>5. ASSUME NEW p \in S PROVE Reports!Amount(items, p) \in Nat
  <2>1. items[p].qty \in Nat /\ Price[p] \in Nat
    BY <1>3, ReportsAssumption
  <2> HIDE DEF items
  <2> QED BY <2>1 DEF Reports!Amount
<1>6. Reports!TotalAmount(items) \in Int
  <2> DEFINE f == [p \in DOMAIN items |-> Reports!Amount(items, p)]
  <2>1. DOMAIN f = S /\ \A p \in S : f[p] \in Int
    BY <1>3, <1>5
  <2>2. Reports!TotalAmount(items) = SumFunctionOnSet(f, DOMAIN f)
    BY ReportsSum DEF Reports!TotalAmount
  <2> HIDE DEF f
  <2> QED BY <1>4, <2>1, <2>2, SumIsInt
<1> QED BY <1>2, <1>3, <1>4, <1>5, <1>6 DEF Money, OrdersUpTo

\* The revenue of some orders is what they cost together.
LEMMA RevenueIsSum ==
    ASSUME Reports!TypeOK, NEW S \in SUBSET DOMAIN s4
    PROVE  IsFiniteSet(S) /\ Reports!Revenue(S) = SumFunctionOnSet(Money, S)
<1>1. IsFiniteSet(S)
  <2>1. DOMAIN s4 = 1 .. Len(s4) /\ Len(s4) \in Nat
    BY DEF Reports!TypeOK
  <2>2. IsFiniteSet(1 .. Len(s4))
    BY <2>1, FS_Interval
  <2> QED BY <2>1, <2>2, FS_Subset
<1> DEFINE f == [o \in S |-> Reports!TotalAmount(s4[o].items)]
<1>2. Reports!Revenue(S) = SumFunctionOnSet(f, S)
  BY ReportsSum DEF Reports!Revenue
<1>3. \A o \in S : f[o] = Money[o]
  BY DEF Money
<1> HIDE DEF f
<1> QED BY <1>1, <1>2, <1>3, SumSame

LEMMA BucketsAreFinite ==
    ASSUME NEW days \in DayRanges PROVE IsFiniteSet(Reports!BucketDates(days))
<1> DEFINE f == [i \in 0 .. days - 1 |->
                   Reports!UtcDate(Reports!Midnight(Reports!FirstDate(days) + i))]
<1>1. IsFiniteSet(0 .. days - 1)
  BY ReportsAssumption, FS_Interval
<1>2. Reports!BucketDates(days) = {f[i] : i \in DOMAIN f}
  BY DEF Reports!BucketDates
<1>3. f \in Surjection(DOMAIN f, {f[i] : i \in DOMAIN f})
  BY DEF Surjection
<1> QED BY <1>1, <1>2, <1>3, FS_Surjection

\* The curve has what was earned in the buckets.
LEMMA CurveIsRevenue ==
    ASSUME Reports!TypeOK, NEW days \in DayRanges
    PROVE  Reports!Curve(days) =
               Reports!Revenue({o \in Reports!Recent(days) :
                   Reports!UtcDate(s4[o].createdAt) \in Reports!BucketDates(days)})
<1> DEFINE K == Reports!BucketDates(days)
           S == Reports!Recent(days)
           key == [o \in DOMAIN s4 |-> Reports!UtcDate(s4[o].createdAt)]
           g == [d \in K |-> Reports!SalesByDay(days)[d].revenue]
<1>1. S \in SUBSET DOMAIN s4
  BY DEF Reports!Recent, Reports!Counted
<1>2. ASSUME NEW d \in K PROVE g[d] = SumFunctionOnSet(Money, With(S, key, d))
  <2>1. With(S, key, d) = Reports!InBucket(days, d)
    BY <1>1 DEF Reports!InBucket, With
  <2>2. g[d] = Reports!Revenue(Reports!InBucket(days, d))
    BY DEF Reports!SalesByDay
  <2>3. Reports!InBucket(days, d) \in SUBSET DOMAIN s4
    BY <1>1 DEF Reports!InBucket
  <2> HIDE DEF g, key, S, K
  <2> QED BY <2>1, <2>2, <2>3, RevenueIsSum
<1>3. Reports!Curve(days) = SumFunctionOnSet(g, K)
  BY ReportsSum DEF Reports!Curve
<1>4. IsFiniteSet(S) /\ IsFiniteSet(K) /\ \A o \in S : Money[o] \in Int
  BY <1>1, RevenueIsSum, OrdersCost, BucketsAreFinite
<1>5. /\ Within(S, key, K) \in SUBSET DOMAIN s4
      /\ Within(S, key, K) = {o \in S : Reports!UtcDate(s4[o].createdAt) \in K}
  BY <1>1 DEF Within
<1> HIDE DEF g, key, S, K
<1>6. SumFunctionOnSet(g, K) = SumFunctionOnSet(Money, Within(S, key, K))
  BY <1>2, <1>4, SumOfParts
<1>7. Reports!Revenue(Within(S, key, K)) = SumFunctionOnSet(Money, Within(S, key, K))
  BY <1>5, RevenueIsSum
<1> QED BY <1>3, <1>5, <1>6, <1>7 DEF S, K

\* Every date has a midnight within a day of that of UTC, and before the next one.
LEMMA Midnights ==
    ASSUME Reports!TypeOK, NEW d \in Int
    PROVE  /\ DayLength \in Nat \ {0} /\ d * DayLength \in Int
           /\ (d + 1) * DayLength = d * DayLength + DayLength
           /\ Reports!Ahead(d) \in -(DayLength - 1) .. DayLength - 1
           /\ Reports!Midnight(d) = d * DayLength - Reports!Ahead(d)
           /\ Reports!Midnight(d) \in Int
           /\ Reports!Midnight(d) < Reports!Midnight(d + 1)
<1> DEFINE L == DayLength
<1>1. L \in Nat \ {0}
  BY ReportsAssumption
<1>2. d * L \in Int /\ (d + 1) * L = d * L + L
  BY <1>1
<1>3. /\ s2.standard \in -(L - 1) .. L - 1 /\ s2.summer \in -(L - 1) .. L - 1
      /\ s2.summer - s2.standard \in -(L - 1) .. L - 1
  BY ZonesAssumption DEF Reports!TypeOK
<1>4. \A e : Reports!Ahead(e) \in {s2.standard, s2.summer}
  BY DEF Reports!Ahead
<1>5. \A e \in Int : Reports!Midnight(e) = e * L - Reports!Ahead(e)
  BY DEF Reports!Midnight
<1> DEFINE h == Reports!Ahead(d)  k == Reports!Ahead(d + 1)
<1>6. h \in -(L - 1) .. L - 1 /\ k \in -(L - 1) .. L - 1 /\ k - h < L
  BY <1>1, <1>3, <1>4
<1>7. Reports!Midnight(d) = d * L - h /\ Reports!Midnight(d + 1) = d * L + L - k
  <2>1. d + 1 \in Int
    OBVIOUS
  <2>2. Reports!Midnight(d + 1) = (d + 1) * L - k
    BY <1>5, <2>1
  <2>3. Reports!Midnight(d) = d * L - h
    BY <1>5
  <2> DEFINE m == d * L  n == (d + 1) * L  y == Reports!Midnight(d + 1)
  <2>4. n = m + L /\ m \in Int
    BY <1>2
  <2>5. y = n - k
    BY <2>2
  <2> HIDE DEF L, h, k, m, n, y
  <2>6. y = m + L - k
    BY <1>1, <1>6, <2>4, <2>5
  <2> QED BY <2>3, <2>6 DEF m, y
<1> HIDE DEF L, h, k
<1>8. Reports!Midnight(d) \in Int /\ Reports!Midnight(d) < Reports!Midnight(d + 1)
  BY <1>1, <1>2, <1>6, <1>7
<1> QED BY <1>1, <1>2, <1>6, <1>7, <1>8 DEF L, h

\* The midnight of a clock that is ahead of UTC has the date before in UTC.
LEMMA KeyOfMidnight ==
    ASSUME Reports!TypeOK, NEW d \in Int
    PROVE  Reports!UtcDate(Reports!Midnight(d)) = IF Reports!Ahead(d) > 0 THEN d - 1 ELSE d
<1> DEFINE L == DayLength  M == Reports!Midnight(d)  h == Reports!Ahead(d)
<1>1. L \in Nat \ {0} /\ d * L \in Int /\ h \in -(L - 1) .. L - 1 /\ M = d * L - h /\ M \in Int
  BY Midnights
<1>2. (d - 1) * L = d * L - L
  <2>1. d - 1 \in Int
    OBVIOUS
  <2>2. (d - 1 + 1) * L = (d - 1) * L + L /\ (d - 1) * L \in Int
    BY <2>1, Midnights
  <2> QED BY <1>1, <2>2
<1> HIDE DEF L, M, h
<1>3. CASE h > 0
  <2>1. (d - 1) * L <= M /\ M < (d - 1) * L + L
    BY <1>1, <1>2, <1>3
  <2> QED BY <1>1, <1>3, <2>1, DivIs DEF L, M, h, Reports!UtcDate
<1>4. CASE h <= 0
  <2>1. d * L <= M /\ M < d * L + L
    BY <1>1, <1>4
  <2>2. ~(h > 0)
    BY <1>1, <1>4
  <2> QED BY <1>1, <2>1, <2>2, DivIs DEF L, M, h, Reports!UtcDate
<1> QED BY <1>1, <1>3, <1>4

\* Every time has one local date, which is that of UTC or one beside it.
LEMMA LocalDates ==
    ASSUME Reports!TypeOK, NEW t \in Int
    PROVE  /\ Reports!LocalDate(t) \in Int
           /\ Reports!Midnight(Reports!LocalDate(t)) <= t
           /\ t < Reports!Midnight(Reports!LocalDate(t) + 1)
           /\ \A d \in Reports!UtcDate(t) - 1 .. Reports!UtcDate(t) + 1 :
                 Reports!Midnight(d) <= t /\ t < Reports!Midnight(d + 1)
                    => d = Reports!LocalDate(t)
<1> DEFINE L == DayLength  q == Reports!UtcDate(t)
           IsDate(d) == Reports!Midnight(d) <= t /\ t < Reports!Midnight(d + 1)
           a == Reports!Midnight(q - 1)  b == Reports!Midnight(q)
           c == Reports!Midnight(q + 1)  e == Reports!Midnight(q + 2)
<1>1. L \in Nat \ {0} /\ q \in Int /\ q * L <= t /\ t < q * L + L
  BY DivBounds, ReportsAssumption DEF Reports!UtcDate
<1>2. q - 1 \in Int /\ q + 1 \in Int /\ q + 2 \in Int
      /\ q - 1 + 1 = q /\ q + 1 + 1 = q + 2
  BY <1>1
<1>3. /\ a \in Int /\ b \in Int /\ c \in Int /\ a < b /\ b < c /\ c < e
      /\ a <= (q - 1) * L + L - 1 /\ (q - 1) * L + L = q * L
  <2>1. /\ Reports!Midnight(q - 1) \in Int /\ Reports!Midnight(q - 1) < b
        /\ Reports!Midnight(q - 1) = (q - 1) * L - Reports!Ahead(q - 1)
        /\ Reports!Ahead(q - 1) \in -(L - 1) .. L - 1
        /\ (q - 1) * L \in Int /\ q * L = (q - 1) * L + L
    BY <1>2, Midnights
  <2>2. b \in Int /\ b < c
    BY <1>1, Midnights
  <2>3. c \in Int /\ c < e
    BY <1>2, Midnights
  <2> HIDE DEF b, c, e
  <2> QED BY <1>1, <2>1, <2>2, <2>3
<1>4. e \in Int /\ e >= q * L + L + 1
  <2>1. /\ e \in Int /\ e = (q + 2) * L - Reports!Ahead(q + 2)
        /\ Reports!Ahead(q + 2) \in -(L - 1) .. L - 1 /\ (q + 2) * L \in Int
    BY <1>2, Midnights
  <2>2. (q + 1) * L = q * L + L /\ q * L \in Int
    BY <1>1, Midnights
  <2>3. (q + 2) * L = (q + 1) * L + L
    BY <1>2, Midnights
  <2> HIDE DEF e, L, q
  <2> QED BY <1>1, <2>1, <2>2, <2>3
<1>5. /\ IsDate(q - 1) <=> a <= t /\ t < b
      /\ IsDate(q) <=> b <= t /\ t < c
      /\ IsDate(q + 1) <=> c <= t /\ t < e
  BY <1>2
<1>6. q - 1 .. q + 1 = {q - 1, q, q + 1}
  <2>1. q \in Int
    BY <1>1
  <2> HIDE DEF q
  <2> QED BY <2>1
<1>7. a <= t /\ t < e
  <2>1. q * L \in Int
    BY <1>1
  <2> HIDE DEF a, e, L, q
  <2> QED BY <1>1, <1>3, <1>4, <2>1
<1> HIDE DEF L, q, a, b, c, e, IsDate
<1>8. \E d \in q - 1 .. q + 1 : IsDate(d)
  BY <1>3, <1>4, <1>5, <1>6, <1>7
<1>9. \A d, f \in q - 1 .. q + 1 : IsDate(d) /\ IsDate(f) => d = f
  BY <1>3, <1>4, <1>5, <1>6
<1>10. Reports!LocalDate(t) = CHOOSE d \in q - 1 .. q + 1 : IsDate(d)
  BY DEF Reports!LocalDate, q, IsDate
<1>11. Reports!LocalDate(t) \in q - 1 .. q + 1 /\ IsDate(Reports!LocalDate(t))
  BY <1>8, <1>10
<1>12. \A d \in q - 1 .. q + 1 : IsDate(d) => d = Reports!LocalDate(t)
  BY <1>9, <1>11
<1>13. Reports!LocalDate(t) \in Int
  BY <1>1, <1>11
<1> QED BY <1>11, <1>12, <1>13 DEF IsDate, q

\* Which recent orders are in no bucket.
LEMMA MissedOrders ==
    ASSUME Reports!TypeOK, NEW days \in DayRanges, NEW o \in Reports!Recent(days),
           Reports!UtcDate(s4[o].createdAt) \notin Reports!BucketDates(days)
    PROVE  \/ /\ Reports!LocalDate(s4[o].createdAt) = Reports!LocalDate(s1)
              /\ \/ Reports!Ahead(Reports!LocalDate(s1)) > 0
                 \/ Reports!Ahead(Reports!LocalDate(s1) + 1) < 0
           \/ Reports!Skipped(Reports!UtcDate(s4[o].createdAt))
<1> DEFINE L == DayLength  t == s4[o].createdAt  q == Reports!UtcDate(t)
           today == Reports!LocalDate(s1)  first == Reports!FirstDate(days)
           Key(d) == Reports!UtcDate(Reports!Midnight(d))
<1>1. /\ L \in Nat \ {0} /\ days \in Nat /\ s1 \in Int /\ t \in Int /\ t <= s1
  <2>1. o \in DOMAIN s4
    BY DEF Reports!Recent, Reports!Counted
  <2>2. MaxHours \in Nat
    BY BoundsAssumption
  <2>3. t \in 0 .. s1
    BY <2>1, OrdersCost
  <2> QED BY <2>2, <2>3, ReportsAssumption DEF Reports!TypeOK
<1>2. /\ today \in Int /\ Reports!Midnight(today) <= s1
      /\ s1 < Reports!Midnight(today + 1)
  BY <1>1, LocalDates
<1>3. first = today - (days - 1) /\ first \in Int /\ t >= Reports!Midnight(first)
  BY <1>1, <1>2 DEF Reports!FirstDate, Reports!Recent, Reports!Since
<1>4. q \in Int /\ q * L <= t /\ t < q * L + L
  BY <1>1, DivBounds DEF Reports!UtcDate
<1>5. first <= today
  <2>1. CASE days = 0
    <3>1. first = today + 1
      BY <1>2, <1>3, <2>1
    <3>2. Reports!Midnight(first) \in Int
      BY <1>3, Midnights
    <3> HIDE DEF first, today, t
    <3> QED BY <1>1, <1>2, <1>3, <3>1, <3>2
  <2>2. CASE days # 0
    BY <1>1, <1>2, <1>3, <2>2
  <2> QED BY <2>1, <2>2
<1>6. \A d \in first .. today : Key(d) # q
  <2> SUFFICES ASSUME NEW d \in first .. today PROVE Key(d) # q
    OBVIOUS
  <2>1. d - first \in 0 .. days - 1 /\ first + (d - first) = d
    BY <1>1, <1>2, <1>3
  <2> QED BY <2>1 DEF Reports!BucketDates
<1>7. ASSUME NEW d \in Int
      PROVE  /\ Reports!Midnight(d) = d * L - Reports!Ahead(d)
             /\ Reports!Ahead(d) \in -(L - 1) .. L - 1 /\ d * L \in Int
             /\ (d + 1) * L = d * L + L
             /\ Key(d) = IF Reports!Ahead(d) > 0 THEN d - 1 ELSE d
  BY <1>7, Midnights, KeyOfMidnight
<1> HIDE DEF L, t, q, today, first, Key
<1>8. ASSUME q < first PROVE FALSE
  <2>1. q * L + L <= first * L /\ q * L \in Int
    BY <1>1, <1>3, <1>4, <1>8, UnitsAreApart
  <2>2. /\ Reports!Midnight(first) = first * L - Reports!Ahead(first) /\ first * L \in Int
        /\ Reports!Ahead(first) \in -(L - 1) .. L - 1
        /\ Key(first) = IF Reports!Ahead(first) > 0 THEN first - 1 ELSE first
    BY <1>3, <1>7
  <2>3. Reports!Ahead(first) > 0
    BY <1>1, <1>3, <1>4, <2>1, <2>2
  <2>4. first \in first .. today
    BY <1>2, <1>3, <1>5
  <2>5. q < first - 1
    BY <1>3, <1>4, <1>6, <1>8, <2>2, <2>3, <2>4
  <2>6. (first - 1) * L = first * L - L
    <3>1. first - 1 \in Int /\ first - 1 + 1 = first
      BY <1>3
    <3>2. (first - 1) * L \in Int /\ first * L = (first - 1) * L + L
      BY <1>7, <3>1
    <3> QED BY <1>1, <2>2, <3>2
  <2>7. q * L + L <= (first - 1) * L
    <3>1. first - 1 \in Int
      BY <1>3
    <3> QED BY <1>1, <1>4, <2>5, <3>1, UnitsAreApart
  <2> QED BY <1>1, <1>3, <1>4, <2>1, <2>2, <2>6, <2>7
<1>9. /\ Reports!Midnight(today + 1) = today * L + L - Reports!Ahead(today + 1)
      /\ Reports!Ahead(today + 1) \in -(L - 1) .. L - 1 /\ today * L \in Int
  <2>1. today + 1 \in Int
    BY <1>2
  <2>2. (today + 1) * L = today * L + L /\ today * L \in Int
    BY <1>2, <1>7
  <2> DEFINE h == Reports!Ahead(today + 1)  m == (today + 1) * L
             n == Reports!Midnight(today + 1)
  <2>3. n = m - h /\ h \in -(L - 1) .. L - 1
    BY <1>7, <2>1
  <2>4. m = today * L + L
    BY <2>2
  <2> HIDE DEF m, h, n
  <2>5. n = today * L + L - h
    BY <1>1, <2>2, <2>3, <2>4
  <2> QED BY <2>2, <2>3, <2>5 DEF h, n
<1>10. ASSUME q > today + 1 PROVE FALSE
  <2>1. (today + 1) * L + L <= q * L /\ q * L \in Int
    <3>1. today + 1 \in Int /\ today + 1 < q
      BY <1>2, <1>4, <1>10
    <3> QED BY <1>1, <1>4, <3>1, UnitsAreApart
  <2>2. (today + 1) * L = today * L + L
    BY <1>2, <1>7
  <2> QED BY <1>1, <1>2, <1>4, <1>9, <2>1, <2>2
<1>11. CASE q < today
  <2>1. q \in first .. today /\ q + 1 \in first .. today /\ q + 1 \in Int
    BY <1>2, <1>3, <1>4, <1>8, <1>11
  <2>2. Key(q) # q /\ Key(q + 1) # q
    BY <1>6, <2>1
  <2>3. /\ Key(q) = IF Reports!Ahead(q) > 0 THEN q - 1 ELSE q
        /\ Key(q + 1) = IF Reports!Ahead(q + 1) > 0 THEN q ELSE q + 1
        /\ Reports!Ahead(q + 1) \in -(L - 1) .. L - 1
    <3>1. Key(q + 1) = IF Reports!Ahead(q + 1) > 0 THEN (q + 1) - 1 ELSE q + 1
      BY <1>7, <2>1
    <3>2. (q + 1) - 1 = q
      BY <1>4
    <3> QED BY <1>4, <1>7, <2>1, <3>1, <3>2
  <2>4. Reports!Ahead(q) > 0 /\ Reports!Ahead(q + 1) <= 0
    BY <1>1, <2>2, <2>3
  <2> QED BY <2>4 DEF Reports!Skipped, q, t
<1>12. CASE q = today
  <2>1. today \in first .. today
    BY <1>2, <1>3, <1>5
  <2>2. /\ Key(today) # today
        /\ Key(today) = IF Reports!Ahead(today) > 0 THEN today - 1 ELSE today
        /\ Reports!Midnight(today) = today * L - Reports!Ahead(today)
        /\ Reports!Ahead(today) \in -(L - 1) .. L - 1
    BY <1>2, <1>6, <1>7, <1>12, <2>1
  <2>3. Reports!Ahead(today) > 0
    BY <2>2
  <2>4. Reports!Midnight(today) <= t /\ t < Reports!Midnight(today + 1)
    BY <1>1, <1>2, <1>4, <1>9, <1>12, <2>2, <2>3
  <2>5. today \in q - 1 .. q + 1
    BY <1>2, <1>12
  <2>6. today = Reports!LocalDate(t)
    BY <1>1, <2>4, <2>5, LocalDates DEF q
  <2> QED BY <2>3, <2>6 DEF today, t
<1>13. CASE q = today + 1
  <2>1. q * L = today * L + L
    BY <1>2, <1>7, <1>13
  <2>2. /\ Reports!Midnight(today) = today * L - Reports!Ahead(today)
        /\ Reports!Ahead(today) \in -(L - 1) .. L - 1
    BY <1>2, <1>7
  <2>3. Reports!Ahead(today + 1) < 0
    BY <1>1, <1>2, <1>4, <1>9, <2>1
  <2>4. Reports!Midnight(today) <= t /\ t < Reports!Midnight(today + 1)
    BY <1>1, <1>2, <1>4, <1>9, <2>1, <2>2
  <2>5. today \in q - 1 .. q + 1
    BY <1>2, <1>13
  <2>6. today = Reports!LocalDate(t)
    BY <1>1, <2>4, <2>5, LocalDates DEF q
  <2> QED BY <2>3, <2>6 DEF today, t
<1>14. q < today \/ q = today \/ q = today + 1
  BY <1>2, <1>4, <1>10
<1> QED BY <1>11, <1>12, <1>13, <1>14

\* The curve of salesByDay, in any time zone of two kinds of days and at every hour:
\* it has the money of the recent orders, but for those of today that come after the
\* last bucket, and those of a UTC date that a change of the clock leaves out
\* (analytics.service.ts:78-105).
THEOREM DailySalesAddUp == Spec => []DaysAddUp
<1>1. ASSUME Reports!TypeOK PROVE Reports!DaysAddUp
  <2> SUFFICES ASSUME NEW days \in DayRanges
               PROVE  LET missed == {o \in Reports!Recent(days) :
                               Reports!UtcDate(s4[o].createdAt) \notin Reports!BucketDates(days)}
                          today == Reports!LocalDate(s1)
                      IN  /\ Reports!Curve(days) = Reports!Revenue(Reports!Recent(days) \ missed)
                          /\ \A o \in missed :
                                \/ /\ Reports!LocalDate(s4[o].createdAt) = today
                                   /\ Reports!Ahead(today) > 0 \/ Reports!Ahead(today + 1) < 0
                                \/ Reports!Skipped(Reports!UtcDate(s4[o].createdAt))
    BY DEF Reports!DaysAddUp
  <2> DEFINE missed == {o \in Reports!Recent(days) :
                         Reports!UtcDate(s4[o].createdAt) \notin Reports!BucketDates(days)}
  <2>1. Reports!Recent(days) \ missed =
          {o \in Reports!Recent(days) :
             Reports!UtcDate(s4[o].createdAt) \in Reports!BucketDates(days)}
    OBVIOUS
  <2>2. Reports!Curve(days) = Reports!Revenue(Reports!Recent(days) \ missed)
    BY <1>1, <2>1, CurveIsRevenue
  <2>3. ASSUME NEW o \in missed
        PROVE  \/ /\ Reports!LocalDate(s4[o].createdAt) = Reports!LocalDate(s1)
                  /\ \/ Reports!Ahead(Reports!LocalDate(s1)) > 0
                     \/ Reports!Ahead(Reports!LocalDate(s1) + 1) < 0
               \/ Reports!Skipped(Reports!UtcDate(s4[o].createdAt))
    BY <1>1, MissedOrders
  <2> QED BY <2>2, <2>3
<1>2. (part = "reports" => Reports!TypeOK) => DaysAddUp
  BY <1>1 DEF DaysAddUp
<1> QED BY <1>2, ReportsTypes, PTL

-----------------------------------------------------------------------------
(* topProducts and summary: the groups divide the items of the orders that *)
(* count, so they have the same money.                                     *)

\* What the items cost: item <<o, p>> is the line of product p in order o.
Costs == [i \in (DOMAIN s4) \X Products |-> Reports!Amount(s4[i[1]].items, i[2])]
OrderOf == [i \in (DOMAIN s4) \X Products |-> i[1]]

LEMMA SelectedAreOrders ==
    ASSUME Reports!TypeOK, NEW range
    PROVE  Reports!Selected(range) \in SUBSET DOMAIN s4 /\ IsFiniteSet(Reports!Selected(range))
<1>1. Reports!Selected(range) \in SUBSET DOMAIN s4
  BY DEF Reports!Selected, Reports!Counted
<1> QED BY <1>1, RevenueIsSum

LEMMA ItemsAreLines ==
    ASSUME Reports!TypeOK, NEW range
    PROVE  /\ Reports!Items(range) \in SUBSET ((DOMAIN s4) \X Products)
           /\ IsFiniteSet(Reports!Items(range))
           /\ \A i \in Reports!Items(range) :
                 i[2] \in DOMAIN s4[i[1]].items /\ Costs[i] \in Int
<1> DEFINE S == Reports!Selected(range)
<1>1. S \in SUBSET DOMAIN s4 /\ IsFiniteSet(S) /\ IsFiniteSet(Products)
  BY SelectedAreOrders, ProductsAssumption
<1>2. IsFiniteSet(S \X Products)
  BY <1>1, FS_Product
<1>3. Reports!Items(range) \in SUBSET (S \X Products)
  BY DEF Reports!Items
<1>4. ASSUME NEW i \in Reports!Items(range)
      PROVE  i \in (DOMAIN s4) \X Products /\ i[2] \in DOMAIN s4[i[1]].items /\ Costs[i] \in Int
  <2>1. /\ i \in (DOMAIN s4) \X Products /\ i[1] \in DOMAIN s4
        /\ i[2] \in DOMAIN s4[i[1]].items
    BY <1>1, <1>3 DEF Reports!Items
  <2>2. Reports!Amount(s4[i[1]].items, i[2]) \in Int
    BY <2>1, OrdersCost
  <2> QED BY <2>1, <2>2 DEF Costs
<1> QED BY <1>1, <1>2, <1>3, <1>4, FS_Subset

\* An order costs what its items cost.
LEMMA OrderIsItsItems ==
    ASSUME Reports!TypeOK, NEW range, NEW o \in Reports!Selected(range)
    PROVE  Money[o] = SumFunctionOnSet(Costs, With(Reports!Items(range), OrderOf, o))
<1> DEFINE items == s4[o].items
           D == DOMAIN items
           g == [p \in D |-> Reports!Amount(items, p)]
           h == [p \in D |-> <<o, p>>]
           K == With(Reports!Items(range), OrderOf, o)
<1>1. o \in DOMAIN s4 /\ D \subseteq Products /\ IsFiniteSet(D)
  BY SelectedAreOrders, OrdersCost
<1>2. \A p \in D : g[p] \in Int
  BY <1>1, OrdersCost
<1>3. \A p \in D : h[p] \in (DOMAIN s4) \X Products /\ Costs[h[p]] = g[p]
  BY <1>1 DEF Costs
<1>4. K = {h[p] : p \in D}
  <2>1. ASSUME NEW i \in K PROVE i \in {h[p] : p \in D}
    <3>1. i \in (DOMAIN s4) \X Products /\ i[1] = o /\ i[2] \in D
      BY ItemsAreLines DEF With, OrderOf
    <3>2. i = h[i[2]]
      BY <3>1
    <3> QED BY <3>1, <3>2
  <2>2. ASSUME NEW p \in D PROVE h[p] \in K
    <3>1. <<o, p>> \in Reports!Items(range)
      BY <1>1 DEF Reports!Items
    <3> QED BY <1>3, <3>1 DEF With, OrderOf
  <2> QED BY <2>1, <2>2
<1>5. \A p, q \in D : h[p] = h[q] => p = q
  OBVIOUS
<1>6. Money[o] = SumFunctionOnSet(g, D)
  BY <1>1, ReportsSum DEF Money, Reports!TotalAmount
<1> HIDE DEF g, h, K, D
<1>7. SumFunctionOnSet(Costs, K) = SumFunctionOnSet(g, D)
  BY <1>1, <1>2, <1>3, <1>4, <1>5, SumImage
<1> QED BY <1>6, <1>7 DEF K

\* The revenue of the orders is that of their items.
LEMMA RevenueOfItems ==
    ASSUME Reports!TypeOK, NEW range
    PROVE  Reports!Revenue(Reports!Selected(range)) =
               SumFunctionOnSet(Costs, Reports!Items(range))
<1> DEFINE S == Reports!Selected(range)  I == Reports!Items(range)
<1>1. S \in SUBSET DOMAIN s4 /\ IsFiniteSet(S) /\ IsFiniteSet(I) /\ \A i \in I : Costs[i] \in Int
  BY SelectedAreOrders, ItemsAreLines
<1>2. \A o \in S : Money[o] = SumFunctionOnSet(Costs, With(I, OrderOf, o))
  BY OrderIsItsItems
<1>3. Within(I, OrderOf, S) = I
  BY ItemsAreLines DEF Within, OrderOf, Reports!Items
<1>4. Reports!Revenue(S) = SumFunctionOnSet(Money, S)
  BY <1>1, RevenueIsSum
<1> HIDE DEF S, I
<1>5. SumFunctionOnSet(Money, S) = SumFunctionOnSet(Costs, Within(I, OrderOf, S))
  BY <1>1, <1>2, SumOfParts
<1> QED BY <1>3, <1>4, <1>5 DEF S, I

\* The row of a group has the money of the items in it.
RowOf(range) == [i \in Reports!Items(range) |-> Reports!Row(range, Reports!Group(i))]

LEMMA RowHasItsItems ==
    ASSUME Reports!TypeOK, NEW range, NEW r \in Reports!Rows(range)
    PROVE  r.revenue = SumFunctionOnSet(Costs, With(Reports!Items(range), RowOf(range), r))
<1> DEFINE I == Reports!Items(range)
<1>1. PICK j \in I : r = Reports!Row(range, Reports!Group(j))
  BY DEF Reports!Rows
<1> DEFINE of == {i \in I : Reports!Group(i) = Reports!Group(j)}
           f == [i \in of |-> Reports!Amount(s4[i[1]].items, i[2])]
<1>2. r.revenue = Reports!SumFunction(f)
  BY <1>1 DEF Reports!Row
<1>3. r.revenue = SumFunctionOnSet(f, of)
  BY <1>2, ReportsSum
<1>4. ASSUME NEW i \in I PROVE Reports!Row(range, Reports!Group(i)) = r <=> i \in of
  <2>1. /\ Reports!Row(range, Reports!Group(i)).productId = Reports!Group(i).productId
        /\ Reports!Row(range, Reports!Group(i)).name = Reports!Group(i).name
        /\ r.productId = Reports!Group(j).productId /\ r.name = Reports!Group(j).name
    BY <1>1 DEF Reports!Row
  <2>2. Reports!Group(i).productId = Reports!Group(j).productId
          /\ Reports!Group(i).name = Reports!Group(j).name
             => Reports!Group(i) = Reports!Group(j)
    BY DEF Reports!Group
  <2> QED BY <1>1, <2>1, <2>2
<1>5. With(I, RowOf(range), r) = of
  BY <1>4 DEF With, RowOf
<1>6. IsFiniteSet(of) /\ \A i \in of : f[i] = Costs[i]
  BY ItemsAreLines, FS_Subset DEF Costs
<1> HIDE DEF f, of
<1> QED BY <1>3, <1>5, <1>6, SumSame

LEMMA RevenueOfRows ==
    ASSUME Reports!TypeOK, NEW range
    PROVE  Reports!SumFunction([r \in Reports!Rows(range) |-> r.revenue]) =
               SumFunctionOnSet(Costs, Reports!Items(range))
<1> DEFINE I == Reports!Items(range)  K == Reports!Rows(range)
           g == [r \in K |-> r.revenue]
<1>1. IsFiniteSet(I) /\ \A i \in I : Costs[i] \in Int
  BY ItemsAreLines
<1>2. IsFiniteSet(K)
  <2>1. RowOf(range) \in Surjection(I, K)
    BY DEF Surjection, RowOf, Reports!Rows
  <2> QED BY <1>1, <2>1, FS_Surjection
<1>3. \A r \in K : g[r] = SumFunctionOnSet(Costs, With(I, RowOf(range), r))
  BY RowHasItsItems
<1>4. Within(I, RowOf(range), K) = I
  BY DEF Within, RowOf, Reports!Rows
<1>5. Reports!SumFunction(g) = SumFunctionOnSet(g, K)
  BY ReportsSum
<1> HIDE DEF I, K, g
<1>6. SumFunctionOnSet(g, K) = SumFunctionOnSet(Costs, Within(I, RowOf(range), K))
  BY <1>1, <1>2, <1>3, SumOfParts
<1> QED BY <1>4, <1>5, <1>6 DEF I, K, g

-----------------------------------------------------------------------------
(* exportCsv: the lines of the export are those of the orders, one order   *)
(* after the other.                                                        *)

\* F[i] is the first i sequences in one.
IsFlattening(F, seqs, n) ==
    F = [i \in 1 .. n |-> IF i = 1 THEN seqs[i] ELSE F[i - 1] \o seqs[i]]

LEMMA FlatteningStep ==
    ASSUME NEW seqs, NEW n, NEW F, IsFlattening(F, seqs, n), NEW i \in 1 .. n
    PROVE  F[i] = IF i = 1 THEN seqs[i] ELSE F[i - 1] \o seqs[i]
<1> DEFINE G == [j \in 1 .. n |-> IF j = 1 THEN seqs[j] ELSE F[j - 1] \o seqs[j]]
<1>1. F = G
  BY DEF IsFlattening
<1>2. G[i] = IF i = 1 THEN seqs[i] ELSE F[i - 1] \o seqs[i]
  OBVIOUS
<1> HIDE DEF G
<1> QED BY <1>1, <1>2

\* The recursion of FlattenSeq has a solution.
LEMMA FlatteningsExist ==
    ASSUME NEW seqs, NEW n \in Nat PROVE \E F : IsFlattening(F, seqs, n)
<1> DEFINE T == {k \in Nat : ~ \E F : IsFlattening(F, seqs, k)}
<1> SUFFICES ASSUME T # {} PROVE FALSE
  OBVIOUS
<1>1. PICK k \in T : \A m \in T : k <= m
  <2>1. T \in SUBSET Nat
    OBVIOUS
  <2> HIDE DEF T
  <2> QED BY <2>1, SmallestNat
<1>2. k \in Nat /\ ~ \E F : IsFlattening(F, seqs, k)
  OBVIOUS
<1>3. CASE k = 0
  <2> DEFINE E == [i \in 1 .. 0 |-> 0]
  <2>1. IsFlattening(E, seqs, 0)
    BY DEF IsFlattening
  <2> QED BY <1>2, <1>3, <2>1
<1>4. CASE k # 0
  <2>1. k - 1 \in Nat /\ k - 1 \notin T
    BY <1>1, <1>2, <1>4
  <2>2. PICK G : IsFlattening(G, seqs, k - 1)
    BY <2>1
  <2> DEFINE H == [i \in 1 .. k |-> IF i = 1 THEN seqs[i] ELSE G[i - 1] \o seqs[i]]
  <2>3. ASSUME NEW i \in 1 .. k - 1 PROVE H[i] = G[i]
    <3>1. i \in 1 .. k
      BY <1>2
    <3>2. H[i] = IF i = 1 THEN seqs[i] ELSE G[i - 1] \o seqs[i]
      BY <3>1
    <3> HIDE DEF H
    <3> QED BY <2>2, <3>2, FlatteningStep
  <2>4. ASSUME NEW i \in 1 .. k
        PROVE  H[i] = IF i = 1 THEN seqs[i] ELSE H[i - 1] \o seqs[i]
    <3>1. H[i] = IF i = 1 THEN seqs[i] ELSE G[i - 1] \o seqs[i]
      OBVIOUS
    <3>2. i # 1 => i - 1 \in 1 .. k - 1
      BY <1>2
    <3> HIDE DEF H
    <3> QED BY <2>3, <3>1, <3>2
  <2>5. H = [i \in 1 .. k |-> H[i]]
    OBVIOUS
  <2> HIDE DEF H
  <2>6. IsFlattening(H, seqs, k)
    BY <2>4, <2>5 DEF IsFlattening
  <2> QED BY <1>2, <2>6
<1> QED BY <1>3, <1>4

LEMMA FlattenUnfold ==
    ASSUME NEW seqs, NEW n \in Nat, Len(seqs) = n
    PROVE  \/ n = 0 /\ Reports!FlattenSeq(seqs) = seqs
           \/ n # 0 /\ \E F : IsFlattening(F, seqs, n) /\ Reports!FlattenSeq(seqs) = F[n]
<1>1. CASE n = 0
  BY <1>1 DEF Reports!FlattenSeq
<1>2. CASE n # 0
  <2> DEFINE F == CHOOSE G : IsFlattening(G, seqs, n)
  <2>1. IsFlattening(F, seqs, n)
    BY FlatteningsExist
  <2>2. Reports!FlattenSeq(seqs) = F[n]
    BY <1>2 DEF Reports!FlattenSeq, IsFlattening
  <2> HIDE DEF F
  <2> QED BY <1>2, <2>1, <2>2
<1> QED BY <1>1, <1>2

\* The lines of the export, and what some of them are about.
ExportLine == [order : Nat, qty : Qtys, name : Names, lineTotal : Int, product : Products]
Total(lines) == SumFunctionOnSet([k \in DOMAIN lines |-> lines[k].lineTotal], DOMAIN lines)
OrdersOf(lines) == {lines[k].order : k \in DOMAIN lines}

LEMMA NoLinesNoMoney == Total(<<>>) = 0 /\ OrdersOf(<<>>) = {}
<1>1. DOMAIN <<>> = {}
  OBVIOUS
<1> QED BY <1>1, SumOfEmpty DEF Total, OrdersOf

\* Two lists after each other have the money, and are about the orders, of both.
LEMMA TotalOfBoth ==
    ASSUME NEW a \in Seq(ExportLine), NEW b \in Seq(ExportLine)
    PROVE  /\ a \o b \in Seq(ExportLine)
           /\ Total(a \o b) = Total(a) + Total(b)
           /\ OrdersOf(a \o b) = OrdersOf(a) \cup OrdersOf(b)
<1> DEFINE n == Len(a)  m == Len(b)  ab == a \o b
           f == [k \in DOMAIN ab |-> ab[k].lineTotal]
           fa == [k \in DOMAIN a |-> a[k].lineTotal]
           fb == [k \in DOMAIN b |-> b[k].lineTotal]
           h == [k \in 1 .. m |-> n + k]
           B == (n + 1) .. (n + m)
<1>1. /\ n \in Nat /\ m \in Nat /\ DOMAIN a = 1 .. n /\ DOMAIN b = 1 .. m
      /\ ab \in Seq(ExportLine) /\ DOMAIN ab = 1 .. n + m
  OBVIOUS
<1>2. /\ \A k \in 1 .. n : ab[k] = a[k] /\ a[k] \in ExportLine
      /\ \A k \in 1 .. m : ab[n + k] = b[k] /\ b[k] \in ExportLine
  <2>1. \A k \in 1 .. n : ab[k] = a[k]
    BY <1>1
  <2>2. \A k \in 1 .. m : ab[n + k] = b[k]
    BY <1>1
  <2>3. (\A k \in 1 .. n : a[k] \in ExportLine) /\ (\A k \in 1 .. m : b[k] \in ExportLine)
    BY <1>1, ElementOfSeq
  <2> QED BY <2>1, <2>2, <2>3
<1>3. /\ 1 .. n + m = (1 .. n) \cup B /\ (1 .. n) \cap B = {}
      /\ B = {h[k] : k \in 1 .. m} /\ IsFiniteSet(1 .. n) /\ IsFiniteSet(1 .. m) /\ IsFiniteSet(B)
  <2>1. 1 .. n + m = (1 .. n) \cup B /\ (1 .. n) \cap B = {}
    BY <1>1
  <2>2. ASSUME NEW x \in B PROVE x \in {h[k] : k \in 1 .. m}
    <3>1. x - n \in 1 .. m /\ x = n + (x - n)
      BY <1>1
    <3> QED BY <3>1
  <2>3. \A k \in 1 .. m : h[k] \in B
    BY <1>1
  <2>4. /\ n \in Int /\ m \in Int /\ n + 1 \in Int /\ n + m \in Int /\ 1 \in Int
    BY <1>1
  <2>5. IsFiniteSet(1 .. n) /\ IsFiniteSet(1 .. m)
    BY <2>4, FS_Interval
  <2>6. IsFiniteSet(n + 1 .. n + m)
    BY <2>4, FS_Interval
  <2>7. B = {h[k] : k \in 1 .. m}
    BY <2>2, <2>3
  <2> QED BY <2>1, <2>5, <2>6, <2>7
<1>4. /\ \A k \in 1 .. n : f[k] = fa[k] /\ f[k] \in Int
      /\ \A k \in 1 .. m : fb[k] \in Int /\ f[h[k]] = fb[k]
  <2>1. ASSUME NEW k \in 1 .. n PROVE f[k] = fa[k] /\ f[k] \in Int
    <3>1. k \in 1 .. n + m /\ ab[k] = a[k] /\ a[k].lineTotal \in Int
      BY <1>1, <1>2 DEF ExportLine
    <3> HIDE DEF ab
    <3> QED BY <1>1, <3>1
  <2>2. ASSUME NEW k \in 1 .. m PROVE fb[k] \in Int /\ f[h[k]] = fb[k]
    <3>1. n + k \in 1 .. n + m /\ ab[n + k] = b[k] /\ b[k].lineTotal \in Int
      BY <1>1, <1>2 DEF ExportLine
    <3> HIDE DEF ab
    <3> QED BY <1>1, <3>1
  <2> QED BY <2>1, <2>2
<1>5. \A j, k \in 1 .. m : h[j] = h[k] => j = k
  BY <1>1
<1>6. \A k \in B : f[k] \in Int
  <2> HIDE DEF f, fb, h, B
  <2> QED BY <1>3, <1>4
<1>7. Total(ab) = SumFunctionOnSet(f, 1 .. n + m) /\ Total(a) = SumFunctionOnSet(fa, 1 .. n)
        /\ Total(b) = SumFunctionOnSet(fb, 1 .. m)
  BY <1>1 DEF Total
<1>8. OrdersOf(ab) = OrdersOf(a) \cup OrdersOf(b)
  <2>1. \A x : x \in OrdersOf(ab) <=> \E k \in 1 .. n + m : x = ab[k].order
    BY <1>1 DEF OrdersOf
  <2>2. \A x : x \in OrdersOf(a) <=> \E k \in 1 .. n : x = ab[k].order
    BY <1>1, <1>2 DEF OrdersOf
  <2>3. \A x : x \in OrdersOf(b) <=> \E k \in B : x = ab[k].order
    <3>1. \A x : x \in OrdersOf(b) <=> \E k \in 1 .. m : x = ab[n + k].order
      BY <1>1, <1>2 DEF OrdersOf
    <3>2. \A x : (\E k \in 1 .. m : x = ab[n + k].order) <=> \E k \in B : x = ab[k].order
      <4>1. \A k \in B : k - n \in 1 .. m /\ n + (k - n) = k
        BY <1>1
      <4>2. \A k \in 1 .. m : n + k \in B
        BY <1>1
      <4> HIDE DEF ab, B
      <4> QED BY <4>1, <4>2
    <3> QED BY <3>1, <3>2
  <2> HIDE DEF ab, B
  <2> QED BY <1>3, <2>1, <2>2, <2>3
<1> HIDE DEF f, fa, fb, h, B, ab
<1>9. SumFunctionOnSet(f, 1 .. n) = SumFunctionOnSet(fa, 1 .. n)
  <2> DEFINE N == 1 .. n
  <2>1. IsFiniteSet(N) /\ \A k \in N : f[k] = fa[k]
    BY <1>3, <1>4
  <2> HIDE DEF N
  <2>2. SumFunctionOnSet(f, N) = SumFunctionOnSet(fa, N)
    BY <2>1, SumSame
  <2> QED BY <2>2 DEF N
<1>10. SumFunctionOnSet(f, B) = SumFunctionOnSet(fb, 1 .. m)
  <2> DEFINE N == 1 .. m
  <2>1. /\ IsFiniteSet(N) /\ B = {h[k] : k \in N}
        /\ \A k \in N : fb[k] \in Int /\ f[h[k]] = fb[k]
        /\ \A j, k \in N : h[j] = h[k] => j = k
    BY <1>3, <1>4, <1>5
  <2> HIDE DEF N
  <2>2. SumFunctionOnSet(f, B) = SumFunctionOnSet(fb, N)
    BY <2>1, SumImage
  <2> QED BY <2>2 DEF N
<1> HIDE DEF n, m
<1>11. SumFunctionOnSet(f, (1 .. n) \cup B)
         = SumFunctionOnSet(f, 1 .. n) + SumFunctionOnSet(f, B)
  BY <1>3, <1>4, <1>6, SumUnion
<1>12. Total(ab) = Total(a) + Total(b)
  BY <1>3, <1>7, <1>9, <1>10, <1>11
<1> QED BY <1>1, <1>8, <1>12 DEF ab

\* SetToSeq lists every element once.
LEMMA SetToSeqLists ==
    ASSUME NEW R, IsFiniteSet(R)
    PROVE  \E n \in Nat :
              /\ Reports!SetToSeq(R) \in [1 .. n -> R]
              /\ \A i, j \in 1 .. n : Reports!SetToSeq(R)[i] = Reports!SetToSeq(R)[j] => i = j
              /\ R = {Reports!SetToSeq(R)[i] : i \in 1 .. n}
<1> DEFINE n == Cardinality(R)  s == Reports!SetToSeq(R)
<1>1. n \in Nat /\ Reports!Cardinality(R) = n
  BY FS_CardinalityType DEF Reports!Cardinality, Cardinality
<1>2. s \in Injection(1 .. n, R)
  <2>1. PICK f \in Injection(1 .. n, R) : TRUE
    BY FS_CardinalityType DEF ExistsBijection, Bijection
  <2>2. f \in [1 .. n -> R] /\ Reports!IsInjective(f)
    BY <2>1 DEF Injection, IsInjective, Reports!IsInjective
  <2>3. s \in [1 .. n -> R] /\ Reports!IsInjective(s)
    BY <1>1, <2>2 DEF Reports!SetToSeq
  <2> HIDE DEF s
  <2> QED BY <2>3 DEF Injection, IsInjective, Reports!IsInjective
<1>3. IsFiniteSet(1 .. n) /\ Cardinality(1 .. n) = n
  BY <1>1, FS_Interval
<1> HIDE DEF s
<1>4. s \in Surjection(1 .. n, R)
  <2> DEFINE N == 1 .. n
  <2>1. s \in Injection(N, R) /\ Cardinality(N) = Cardinality(R)
    BY <1>2, <1>3
  <2> HIDE DEF N
  <2>2. s \in Surjection(N, R)
    BY <2>1, FS_Injection
  <2> QED BY <2>2 DEF N
<1>5. s \in [1 .. n -> R] /\ (\A i, j \in 1 .. n : s[i] = s[j] => i = j)
  BY <1>2 DEF Injection, IsInjective
<1>6. R = {s[i] : i \in 1 .. n}
  BY <1>4, <1>5 DEF Surjection
<1> QED BY <1>1, <1>5, <1>6 DEF s

\* The line of product p in order o, and the lines of the order.
LineOf(o, p) == [order |-> o, qty |-> s4[o].items[p].qty, name |-> s4[o].items[p].name,
                 lineTotal |-> Reports!Amount(s4[o].items, p), product |-> p]
LinesOf(o) == Reports!SetToSeq({LineOf(o, p) : p \in DOMAIN s4[o].items})

LEMMA OrderLines ==
    ASSUME Reports!TypeOK, NEW o \in DOMAIN s4
    PROVE  /\ LinesOf(o) \in Seq(ExportLine)
           /\ Total(LinesOf(o)) = Money[o] /\ OrdersOf(LinesOf(o)) = {o}
<1> DEFINE items == s4[o].items
           D == DOMAIN items
           R == {LineOf(o, p) : p \in D}
           g == [p \in D |-> Reports!Amount(items, p)]
           h == [p \in D |-> LineOf(o, p)]
           f == [r \in R |-> r.lineTotal]
           s == LinesOf(o)
           t == [k \in DOMAIN s |-> s[k].lineTotal]
<1>1. D \subseteq Products /\ IsFiniteSet(D) /\ \A p \in D : g[p] \in Int
  BY OrdersCost
<1>2. o \in Nat /\ D # {} /\ items \in [D -> [name : Names, qty : Qtys]]
  <2>1. s4 \in Seq(OrdersUpTo(s1)) /\ o \in 1 .. Len(s4)
    BY DEF Reports!TypeOK, OrdersUpTo
  <2>2. s4[o] \in OrdersUpTo(s1)
    BY <2>1, ElementOfSeq
  <2>3. PICK S \in (SUBSET Products) \ {{}} : items \in [S -> [name : Names, qty : Qtys]]
    BY <2>2 DEF OrdersUpTo, Reports!ItemLists
  <2> QED BY <2>1, <2>3
<1>3. R = {h[p] : p \in D} /\ \A p, q \in D : h[p] = h[q] => p = q
  BY DEF LineOf
<1>4. \A p \in D : h[p] \in R /\ f[h[p]] = g[p]
  BY DEF LineOf
<1>5. R \subseteq ExportLine
  <2>1. ASSUME NEW p \in D PROVE LineOf(o, p) \in ExportLine
    <3>1. items[p] \in [name : Names, qty : Qtys] /\ Reports!Amount(items, p) \in Int /\ p \in Products
      BY <1>1, <1>2
    <3>2. items[p].name \in Names /\ items[p].qty \in Qtys
      BY <3>1
    <3> QED BY <1>2, <3>1, <3>2 DEF LineOf, ExportLine
  <2> QED BY <2>1
<1>6. Money[o] = SumFunctionOnSet(g, D)
  BY ReportsSum DEF Money, Reports!TotalAmount
<1>7. s = Reports!SetToSeq(R)
  BY DEF LinesOf
<1>8. \A r \in R : r.order = o /\ r.lineTotal \in Int
  BY <1>5 DEF LineOf, ExportLine
<1>9. R # {}
  BY <1>2
<1>10. \A r \in R : f[r] = r.lineTotal
  OBVIOUS
<1> HIDE DEF R, h, g, f, D, s
<1>11. IsFiniteSet(R) /\ SumFunctionOnSet(f, R) = SumFunctionOnSet(g, D)
  <2>1. \A p \in D : g[p] \in Int /\ f[h[p]] = g[p]
    BY <1>1, <1>4
  <2> QED BY <1>1, <1>3, <2>1, SumImage
<1>12. PICK n \in Nat : /\ s \in [1 .. n -> R]
                        /\ \A i, j \in 1 .. n : s[i] = s[j] => i = j
                        /\ R = {s[i] : i \in 1 .. n}
  BY <1>7, <1>11, SetToSeqLists
<1> DEFINE N == 1 .. n
<1>13. /\ IsFiniteSet(N) /\ DOMAIN s = N /\ R = {s[i] : i \in N}
       /\ (\A i, j \in N : s[i] = s[j] => i = j)
       /\ (\A i \in N : s[i] \in R) /\ s \in Seq(R)
  <2>1. IsFiniteSet(N)
    BY FS_Interval
  <2> QED BY <1>12, <2>1
<1>14. \A i \in N : t[i] \in Int /\ f[s[i]] = t[i]
  BY <1>8, <1>10, <1>13
<1>15. s \in Seq(ExportLine)
  BY <1>5, <1>13
<1>16. Total(s) = SumFunctionOnSet(t, N)
  BY <1>13 DEF Total
<1> HIDE DEF t, N
<1>17. SumFunctionOnSet(f, R) = SumFunctionOnSet(t, N)
  <2>1. \A i, j \in N : s[i] = s[j] => i = j
    BY <1>13
  <2>2. IsFiniteSet(N) /\ R = {s[i] : i \in N}
    BY <1>13
  <2> QED BY <1>14, <2>1, <2>2, SumImage
<1>18. OrdersOf(s) = {o}
  BY <1>8, <1>9, <1>13 DEF OrdersOf
<1> QED BY <1>6, <1>11, <1>15, <1>16, <1>17, <1>18 DEF s

\* The first i orders have their lines in the export, if they are selected.
LEMMA ExportHasTheOrders ==
    ASSUME Reports!TypeOK, NEW range
    PROVE  /\ Total(Reports!ExportedLines(range)) = Reports!Revenue(Reports!Selected(range))
           /\ OrdersOf(Reports!ExportedLines(range)) = Reports!Selected(range)
<1> DEFINE n == Len(s4)  S == Reports!Selected(range)
           seqs == [k \in 1 .. n |-> IF k \in S THEN LinesOf(k) ELSE <<>>]
           First(i) == S \cap (1 .. i)
<1>1. n \in Nat /\ DOMAIN s4 = 1 .. n /\ S \in SUBSET (1 .. n) /\ IsFiniteSet(S)
  BY SelectedAreOrders DEF Reports!TypeOK
<1>2. Reports!ExportedLines(range) = Reports!FlattenSeq(seqs)
  BY DEF Reports!ExportedLines, LinesOf, LineOf
<1>3. ASSUME NEW k \in 1 .. n
      PROVE  /\ seqs[k] \in Seq(ExportLine)
             /\ k \in S => Total(seqs[k]) = Money[k] /\ OrdersOf(seqs[k]) = {k}
             /\ k \notin S => Total(seqs[k]) = 0 /\ OrdersOf(seqs[k]) = {}
  <2>1. <<>> \in Seq(ExportLine)
    OBVIOUS
  <2>2. seqs[k] = IF k \in S THEN LinesOf(k) ELSE <<>>
    OBVIOUS
  <2> HIDE DEF seqs
  <2> QED BY <1>1, <2>1, <2>2, OrderLines, NoLinesNoMoney
<1>4. Len(seqs) = n
  <2>1. seqs \in [1 .. n -> Seq(ExportLine)]
    BY <1>3
  <2> QED BY <1>1, <2>1
<1>5. Reports!Revenue(S) = SumFunctionOnSet(Money, S) /\ \A k \in S : Money[k] \in Int
  BY <1>1, RevenueIsSum, OrdersCost
<1> HIDE DEF S, seqs
<1>6. CASE n = 0
  <2>1. S = {} /\ seqs = <<>>
    BY <1>1, <1>6 DEF seqs
  <2>2. Reports!FlattenSeq(seqs) = <<>>
    BY <1>4, <1>6, <2>1, FlattenUnfold
  <2> QED BY <1>2, <1>5, <2>1, <2>2, NoLinesNoMoney, SumOfEmpty DEF S
<1>7. CASE n # 0
  <2>1. PICK F : IsFlattening(F, seqs, n) /\ Reports!FlattenSeq(seqs) = F[n]
    BY <1>1, <1>4, <1>7, FlattenUnfold
  <2> DEFINE Good(i) == /\ F[i] \in Seq(ExportLine)
                        /\ Total(F[i]) = SumFunctionOnSet(Money, First(i))
                        /\ OrdersOf(F[i]) = First(i)
             T == {i \in 1 .. n : ~Good(i)}
  <2>2. ASSUME NEW i \in 1 .. n, i = 1 \/ Good(i - 1) PROVE Good(i)
    <3> DEFINE P == First(i - 1)
    <3>1. /\ i - 1 \in Nat /\ IsFiniteSet(P) /\ IsFiniteSet(First(i)) /\ i \notin P
          /\ P \subseteq S /\ First(i) \subseteq S
          /\ First(i) = IF i \in S THEN P \cup {i} ELSE P
          /\ i = 1 => P = {}
      <4>1. P \subseteq S /\ First(i) \subseteq S
        OBVIOUS
      <4>2. IsFiniteSet(P) /\ IsFiniteSet(First(i))
        BY <1>1, <4>1, FS_Subset
      <4>3. i - 1 \in Nat /\ i \notin P /\ (i = 1 => P = {})
        BY <1>1
      <4>4. 1 .. i = (1 .. i - 1) \cup {i}
        BY <1>1
      <4>5. First(i) = IF i \in S THEN P \cup {i} ELSE P
        BY <4>4
      <4> QED BY <4>1, <4>2, <4>3, <4>5
    <3>2. SumFunctionOnSet(Money, First(i)) =
            IF i \in S THEN Money[i] + SumFunctionOnSet(Money, P) ELSE SumFunctionOnSet(Money, P)
      <4> HIDE DEF P
      <4>1. i \in S => \A x \in P \cup {i} : Money[x] \in Int
        BY <1>5, <3>1
      <4> QED BY <3>1, <4>1, SumAdd
    <3>3. SumFunctionOnSet(Money, P) \in Int
      BY <1>5, <3>1, SumIsInt
    <3>4. F[i] = IF i = 1 THEN seqs[i] ELSE F[i - 1] \o seqs[i]
      BY <2>1, FlatteningStep
    <3>5. CASE i = 1
      <4>1. P = {} /\ SumFunctionOnSet(Money, P) = 0
        BY <3>1, <3>5, SumOfEmpty
      <4> HIDE DEF P
      <4>2. i \in S => Money[i] \in Int
        BY <1>5
      <4>3. F[i] = seqs[i] /\ F[i] \in Seq(ExportLine)
        BY <1>3, <3>4, <3>5
      <4>4. Total(F[i]) = SumFunctionOnSet(Money, First(i))
        <5>1. CASE i \in S
          <6>1. Total(seqs[i]) = Money[i]
            BY <1>3, <5>1
          <6>2. SumFunctionOnSet(Money, First(i)) = Money[i] + 0
            BY <3>2, <4>1, <5>1
          <6> QED BY <4>2, <4>3, <5>1, <6>1, <6>2
        <5>2. CASE i \notin S
          BY <1>3, <3>2, <4>1, <4>3, <5>2
        <5> QED BY <5>1, <5>2
      <4>5. OrdersOf(F[i]) = First(i)
        <5>1. /\ i \in S => OrdersOf(seqs[i]) = {i}
              /\ i \notin S => OrdersOf(seqs[i]) = {}
          BY <1>3
        <5>2. First(i) = IF i \in S THEN {i} ELSE {}
          BY <3>1, <4>1
        <5> QED BY <4>3, <5>1, <5>2
      <4> QED BY <4>3, <4>4, <4>5
    <3>6. CASE i # 1
      <4>1. /\ F[i - 1] \in Seq(ExportLine) /\ Total(F[i - 1]) = SumFunctionOnSet(Money, P)
            /\ OrdersOf(F[i - 1]) = P
        BY <2>2, <3>6
      <4>2. /\ F[i] \in Seq(ExportLine) /\ Total(F[i]) = Total(F[i - 1]) + Total(seqs[i])
            /\ OrdersOf(F[i]) = OrdersOf(F[i - 1]) \cup OrdersOf(seqs[i])
        BY <1>3, <3>4, <3>6, <4>1, TotalOfBoth
      <4> HIDE DEF P
      <4>3. i \in S => Money[i] \in Int
        BY <1>5
      <4>4. Total(F[i]) = SumFunctionOnSet(Money, First(i))
        BY <1>3, <3>2, <3>3, <4>1, <4>2, <4>3
      <4>5. OrdersOf(F[i]) = First(i)
        BY <1>3, <3>1, <4>1, <4>2
      <4> QED BY <4>2, <4>4, <4>5
    <3> QED BY <3>5, <3>6
  <2>3. Good(n)
    <3> SUFFICES ASSUME ~Good(n) PROVE FALSE
      OBVIOUS
    <3>1. n \in T /\ T \in SUBSET Nat
      BY <1>1, <1>7
    <3>2. PICK i \in T : \A j \in T : i <= j
      <4> HIDE DEF T
      <4> QED BY <3>1, SmallestNat
    <3>3. i = 1 \/ Good(i - 1)
      <4>1. i # 1 => i - 1 \in 1 .. n /\ i - 1 < i
        BY <1>1
      <4> HIDE DEF Good
      <4>2. i # 1 => i - 1 \notin T
        BY <1>1, <3>2, <4>1
      <4> QED BY <4>1, <4>2
    <3>4. i \in 1 .. n /\ ~Good(i)
      OBVIOUS
    <3> HIDE DEF Good
    <3> QED BY <2>2, <3>3, <3>4
  <2>4. First(n) = S
    BY <1>1
  <2> QED BY <1>2, <1>5, <2>1, <2>3, <2>4 DEF S
<1> QED BY <1>6, <1>7

-----------------------------------------------------------------------------
(* The top: a product has one row as long as none was renamed, and its row *)
(* has what the product has earned.                                        *)

LEMMA NamesStep ==
    ASSUME Reports!ReportsInv, [Reports!Next]_Reports!vars PROVE Reports!ReportsInv'
<1>1. Reports!TypeOK /\ Reports!TypeOK'
  BY LedgerTypesStep DEF Reports!ReportsInv
<1> DEFINE Named(o, p) == s4[o].items[p].name = s3[p]
<1>2. \A o \in DOMAIN s4 : \A p \in (DOMAIN s4[o].items) \ s5 : Named(o, p)
  BY DEF Reports!ReportsInv
<1> SUFFICES ASSUME NEW o \in DOMAIN s4', NEW p \in (DOMAIN s4'[o].items) \ s5'
             PROVE  s4'[o].items[p].name = s3'[p]
  BY <1>1 DEF Reports!ReportsInv
<1>3. CASE UNCHANGED Reports!vars
  BY <1>2, <1>3 DEF Reports!vars
<1>4. ASSUME NEW S \in (SUBSET Products) \ {{}}, NEW q \in [S -> Qtys], Reports!PlaceOrder(q)
      PROVE  s4'[o].items[p].name = s3'[p]
  <2> DEFINE items == [r \in DOMAIN q |-> [name |-> s3[r], qty |-> q[r]]]
             order == [createdAt |-> s1, status |-> "NEW", items |-> items]
  <2>1. s4' = Append(s4, order) /\ UNCHANGED <<s3, s5>>
    BY <1>4 DEF Reports!PlaceOrder
  <2>2. order.items = items /\ \A r \in DOMAIN items : items[r].name = s3[r]
    OBVIOUS
  <2> HIDE DEF order, items
  <2>3. s4 \in Seq(OrdersUpTo(s1))
    BY <1>1 DEF Reports!TypeOK, OrdersUpTo
  <2>4. CASE o \in DOMAIN s4
    <3>1. s4'[o] = s4[o]
      BY <2>1, <2>3, <2>4
    <3> QED BY <1>2, <2>1, <2>4, <3>1
  <2>5. CASE o \notin DOMAIN s4
    <3>1. s4'[o] = order
      BY <2>1, <2>3, <2>5
    <3> QED BY <2>1, <2>2, <3>1
  <2> QED BY <2>4, <2>5
<1>5. ASSUME NEW c \in DOMAIN s4, Reports!CancelOrder(c)
      PROVE  s4'[o].items[p].name = s3'[p]
  <2>1. s4' = [s4 EXCEPT ![c].status = "CANCELLED"] /\ UNCHANGED <<s3, s5>>
    BY <1>5 DEF Reports!CancelOrder
  <2>2. s4 \in Seq(OrdersUpTo(s1))
    BY <1>1 DEF Reports!TypeOK, OrdersUpTo
  <2>3. o \in DOMAIN s4 /\ s4[o] \in OrdersUpTo(s1)
    BY <2>1, <2>2, ElementOfSeq
  <2>4. s4'[o].items = s4[o].items
    BY <2>1, <2>3 DEF OrdersUpTo
  <2> QED BY <1>2, <2>1, <2>3, <2>4
<1>6. ASSUME NEW r \in Products, NEW n \in Names, Reports!Rename(r, n)
      PROVE  s4'[o].items[p].name = s3'[p]
  <2>1. /\ s4' = s4 /\ s3' = [s3 EXCEPT ![r] = n] /\ s3 \in [Products -> Names]
        /\ s5' = IF \E x \in DOMAIN s4 : r \in DOMAIN s4[x].items THEN s5 \cup {r} ELSE s5
    BY <1>1, <1>6 DEF Reports!Rename, Reports!TypeOK
  <2>2. p # r /\ p \notin s5
    BY <2>1
  <2> QED BY <1>2, <2>1, <2>2
<1>7. CASE Reports!Tick
  BY <1>2, <1>7 DEF Reports!Tick
<1> QED BY <1>3, <1>4, <1>5, <1>6, <1>7 DEF Reports!Next

\* What the items are called.
LEMMA ItemNames == Spec => [](part = "reports" => Reports!ReportsInv)
<1>1. Spec => [](part = "reports" => Reports!TypeOK)
  BY ReportsTypes
<1>2. Init /\ (part = "reports" => Reports!TypeOK) => (part = "reports" => Reports!ReportsInv)
  <2>1. ASSUME Reports!Init, Reports!TypeOK PROVE Reports!ReportsInv
    <3>1. s4 = <<>> /\ DOMAIN s4 = {}
      BY <2>1 DEF Reports!Init
    <3> QED BY <2>1, <3>1 DEF Reports!ReportsInv
  <2> QED BY <2>1, ReportsStart
<1>3. (part = "reports" => Reports!ReportsInv) /\ [Next]_slots
         => (part = "reports" => Reports!ReportsInv)'
  <2>1. [Next]_slots => part' = part
    BY DEF Next, slots
  <2> QED BY <2>1, ReportsStep, NamesStep
<1> QED BY <1>1, <1>2, <1>3, PTL DEF Spec

\* The orders of a product that count, and what they brought for it.
Bought(p) == {o \in DOMAIN s4 : s4[o].status # "CANCELLED" /\ p \in DOMAIN s4[o].items}
Earned(p) == Reports!SumFunction([o \in Bought(p) |-> Reports!Amount(s4[o].items, p)])

LEMMA SalesAreItems ==
    ASSUME Reports!TypeOK, NEW p \in Products, NEW o
    PROVE  o \in Bought(p) <=> <<o, p>> \in Reports!Items(Reports!Always)
<1>1. \A t : Reports!InRange(t, Reports!Always)
  BY DEF Reports!InRange, Reports!Always
<1>2. o \in Reports!Selected(Reports!Always) <=> o \in DOMAIN s4 /\ s4[o].status # "CANCELLED"
  BY <1>1 DEF Reports!Selected, Reports!Counted
<1> QED BY <1>2 DEF Bought, Reports!Items

\* While no product was renamed, a row belongs to a product, and has its sales.
LEMMA RowsAreProducts ==
    ASSUME Reports!ReportsInv, s5 = {}, NEW j \in Reports!Items(Reports!Always)
    PROVE  LET r == Reports!Row(Reports!Always, Reports!Group(j)) IN
           /\ r.productId = j[2] /\ j[2] \in Products
           /\ \A i \in Reports!Items(Reports!Always) :
                 (Reports!Group(i) = Reports!Group(j)) <=> i[2] = j[2]
           /\ r.revenue = Earned(j[2])
<1> DEFINE range == Reports!Always  I == Reports!Items(range)  p == j[2]
           r == Reports!Row(range, Reports!Group(j))
<1>1. Reports!TypeOK
  BY DEF Reports!ReportsInv
<1>2. ASSUME NEW i \in I
      PROVE  i[2] \in Products /\ Reports!Group(i) = [productId |-> i[2], name |-> s3[i[2]]]
  <2>1. i[1] \in DOMAIN s4 /\ i[2] \in Products /\ i[2] \in DOMAIN s4[i[1]].items
    BY <1>1, ItemsAreLines
  <2>2. s4[i[1]].items[i[2]].name = s3[i[2]]
    BY <2>1 DEF Reports!ReportsInv
  <2> QED BY <2>1, <2>2 DEF Reports!Group
<1>3. r.productId = p /\ p \in Products
  BY <1>2 DEF Reports!Row
<1>4. \A i \in I : (Reports!Group(i) = Reports!Group(j)) <=> i[2] = p
  <2>1. ASSUME NEW i \in I PROVE (Reports!Group(i) = Reports!Group(j)) <=> i[2] = p
    <3>1. Reports!Group(i).productId = i[2] /\ Reports!Group(j).productId = p
      BY <1>2
    <3>2. i[2] = p => Reports!Group(i) = Reports!Group(j)
      BY <1>2
    <3> QED BY <3>1, <3>2
  <2> QED BY <2>1
<1> DEFINE of == {i \in I : Reports!Group(i) = Reports!Group(j)}
           f == [i \in of |-> Reports!Amount(s4[i[1]].items, i[2])]
           B == Bought(p)
           g == [o \in B |-> Reports!Amount(s4[o].items, p)]
           h == [o \in B |-> <<o, p>>]
<1>5. r.revenue = SumFunctionOnSet(f, of)
  <2>1. r.revenue = Reports!SumFunction(f)
    BY DEF Reports!Row
  <2> QED BY <2>1, ReportsSum
<1>6. Earned(p) = SumFunctionOnSet(g, B)
  BY ReportsSum DEF Earned
<1>7. of = {h[o] : o \in B}
  <2>1. ASSUME NEW i \in of PROVE i \in {h[o] : o \in B}
    <3>1. i \in I /\ i[2] = p /\ i \in (DOMAIN s4) \X Products
      BY <1>1, <1>4, ItemsAreLines
    <3>2. i = <<i[1], p>>
      BY <3>1
    <3>3. i[1] \in B
      BY <1>1, <1>3, <3>1, <3>2, SalesAreItems
    <3> QED BY <3>2, <3>3
  <2>2. ASSUME NEW o \in B PROVE h[o] \in of
    <3>1. <<o, p>> \in I
      BY <1>1, <1>3, SalesAreItems
    <3>2. <<o, p>> \in of
      BY <1>4, <3>1
    <3> QED BY <3>2
  <2> QED BY <2>1, <2>2
<1>8. IsFiniteSet(B) /\ \A o \in B : g[o] \in Int
  <2>1. B \in SUBSET DOMAIN s4 /\ \A o \in B : p \in DOMAIN s4[o].items
    BY DEF Bought
  <2> QED BY <1>1, <2>1, RevenueIsSum, OrdersCost
<1>9. ASSUME NEW o \in B PROVE f[h[o]] = g[o]
  <2>1. <<o, p>> \in of /\ h[o] = <<o, p>>
    BY <1>7
  <2> QED BY <2>1
<1>10. \A x, y \in B : h[x] = h[y] => x = y
  OBVIOUS
<1> HIDE DEF of, f, B, g, h
<1>11. \A o \in B : g[o] \in Int /\ f[h[o]] = g[o]
  BY <1>8, <1>9
<1>12. SumFunctionOnSet(f, of) = SumFunctionOnSet(g, B)
  BY <1>7, <1>8, <1>10, <1>11, SumImage
<1> QED BY <1>3, <1>4, <1>5, <1>6, <1>12 DEF r

\* What a product has earned is not negative, and nothing if it was not sold.
LEMMA EarnedIsNat ==
    ASSUME Reports!TypeOK, NEW p \in Products
    PROVE  Earned(p) \in Nat /\ (Bought(p) = {} => Earned(p) = 0)
<1> DEFINE B == Bought(p)  g == [o \in B |-> Reports!Amount(s4[o].items, p)]
<1>1. Earned(p) = SumFunctionOnSet(g, B)
  BY ReportsSum DEF Earned
<1>2. B \in SUBSET DOMAIN s4 /\ \A o \in B : p \in DOMAIN s4[o].items
  BY DEF Bought
<1>3. IsFiniteSet(B) /\ \A o \in B : g[o] \in Nat
  BY <1>2, RevenueIsSum, OrdersCost
<1>4. Bought(p) = B
  OBVIOUS
<1> HIDE DEF g, B
<1> QED BY <1>1, <1>3, <1>4, SumIsNat, SumOfEmpty

LEMMA TheTopLeads ==
    ASSUME Reports!ReportsInv PROVE Reports!TopProductsLead
<1> DEFINE range == Reports!Always  I == Reports!Items(range)  R == Reports!Rows(range)
<1>1. Reports!TypeOK /\ IsFiniteSet(I)
  BY ItemsAreLines DEF Reports!ReportsInv
<1>2. IsFiniteSet(R)
  <2>1. RowOf(range) \in Surjection(I, R)
    BY DEF Surjection, RowOf, Reports!Rows
  <2> HIDE DEF I, R, range
  <2> QED BY <1>1, <2>1, FS_Surjection
<1>3. ASSUME s5 = {}, NEW T \in Reports!TopProducts(range)
      PROVE  LET ids == Reports!TableKeys(T) IN
             /\ Reports!Stats(T).tracked = Cardinality(ids)
             /\ \A p \in ids, q \in Products \ ids : Earned(p) >= Earned(q)
  <2> DEFINE ids == Reports!TableKeys(T)
  <2>1. T \subseteq R /\ \A t \in T, r \in R \ T : t.revenue >= r.revenue
    BY <1>3 DEF Reports!TopProducts, Reports!IsTop
  <2>2. ASSUME NEW r \in R
        PROVE  r.productId \in Products /\ r.revenue = Earned(r.productId)
    <3>1. PICK j \in I : r = Reports!Row(range, Reports!Group(j))
      BY DEF Reports!Rows
    <3> QED BY <1>3, <3>1, RowsAreProducts
  <2>3. ASSUME NEW r \in R, NEW t \in R, r.productId = t.productId PROVE r = t
    <3>1. PICK j \in I : r = Reports!Row(range, Reports!Group(j))
      BY DEF Reports!Rows
    <3>2. PICK i \in I : t = Reports!Row(range, Reports!Group(i))
      BY DEF Reports!Rows
    <3>3. j[2] = i[2]
      BY <1>3, <2>3, <3>1, <3>2, RowsAreProducts
    <3>4. Reports!Group(i) = Reports!Group(j)
      BY <1>3, <3>3, RowsAreProducts
    <3> QED BY <3>1, <3>2, <3>4
  <2>4. Reports!Stats(T).tracked = Cardinality(ids)
    <3> DEFINE e == [t \in T |-> t.productId]
    <3>1. e \in Bijection(T, ids)
      <4>1. e \in [T -> ids]
        BY DEF Reports!TableKeys
      <4>2. \A a, b \in T : e[a] = e[b] => a = b
        BY <2>1, <2>3
      <4>3. \A x \in ids : \E t \in T : e[t] = x
        BY DEF Reports!TableKeys
      <4> HIDE DEF e, ids
      <4> QED BY <4>1, <4>2, <4>3 DEF Bijection, Injection, Surjection, IsInjective
    <3>2. IsFiniteSet(T)
      BY <1>2, <2>1, FS_Subset
    <3> HIDE DEF e, ids
    <3>3. Cardinality(T) = Cardinality(ids)
      BY <3>1, <3>2, FS_Bijection DEF ExistsBijection
    <3>4. Reports!Stats(T).tracked = Cardinality(T)
      BY DEF Reports!Stats, Reports!Cardinality, Cardinality
    <3> QED BY <3>3, <3>4
  <2>5. ASSUME NEW p \in ids, NEW q \in Products \ ids PROVE Earned(p) >= Earned(q)
    <3>1. PICK t \in T : p = t.productId
      BY DEF Reports!TableKeys
    <3>2. p \in Products /\ t.revenue = Earned(p) /\ Earned(p) \in Nat
      BY <1>1, <2>1, <2>2, <3>1, EarnedIsNat
    <3>3. CASE Bought(q) = {}
      BY <1>1, <3>2, <3>3, EarnedIsNat
    <3>4. CASE Bought(q) # {}
      <4>1. PICK o \in Bought(q) : <<o, q>> \in I
        BY <1>1, <3>4, SalesAreItems
      <4> DEFINE r == Reports!Row(range, Reports!Group(<<o, q>>))
      <4>2. r \in R
        BY <4>1 DEF Reports!Rows
      <4>3. r.productId = q /\ r.revenue = Earned(q)
        BY <1>3, <4>1, RowsAreProducts
      <4>4. r \notin T
        BY <4>3 DEF Reports!TableKeys
      <4> HIDE DEF r
      <4> QED BY <2>1, <3>2, <4>2, <4>3, <4>4
    <3> QED BY <3>3, <3>4
  <2> QED BY <2>4, <2>5
<1> QED BY <1>3 DEF Reports!TopProductsLead, Bought, Earned, Reports!Cardinality, Cardinality

-----------------------------------------------------------------------------
\* The summary, the groups of the products and the lines of the export have the
\* same money and the same orders, and the top has those that earned most.
THEOREM ReportsAlwaysAgree == Spec => []ReportsAgree
<1>1. ASSUME Reports!TypeOK, NEW range
      PROVE  LET lines == Reports!ExportedLines(range) IN
             /\ Reports!Summary(range).totalRevenue
                  = Reports!SumFunction([r \in Reports!Rows(range) |-> r.revenue])
             /\ Reports!Summary(range).totalRevenue
                  = Reports!SumFunction([k \in DOMAIN lines |-> lines[k].lineTotal])
             /\ Reports!Summary(range).orderCount
                  = Reports!Cardinality({lines[k].order : k \in DOMAIN lines})
  <2> DEFINE lines == Reports!ExportedLines(range)  S == Reports!Selected(range)
  <2>1. /\ Reports!Summary(range).totalRevenue = Reports!Revenue(S)
        /\ Reports!Summary(range).orderCount = Reports!Cardinality(S)
    BY DEF Reports!Summary
  <2>2. Reports!Revenue(S) = Reports!SumFunction([r \in Reports!Rows(range) |-> r.revenue])
    BY <1>1, RevenueOfItems, RevenueOfRows
  <2>3. Reports!SumFunction([k \in DOMAIN lines |-> lines[k].lineTotal]) = Total(lines)
    BY ReportsSum DEF Total
  <2>4. Total(lines) = Reports!Revenue(S) /\ OrdersOf(lines) = S
    BY <1>1, ExportHasTheOrders
  <2> QED BY <2>1, <2>2, <2>3, <2>4 DEF OrdersOf
<1>2. ASSUME Reports!ReportsInv PROVE Reports!ReportsAgree
  BY <1>1, <1>2 DEF Reports!ReportsAgree, Reports!ReportsInv
<1>3. (part = "reports" => Reports!ReportsInv) => ReportsAgree
  BY <1>2, TheTopLeads DEF ReportsAgree
<1> QED BY <1>3, ItemNames, PTL

-----------------------------------------------------------------------------
(* exportCsv: what is written is read.  The reader is followed cell by     *)
(* cell, and line by line.                                                 *)

\* What holds of the empty sequence, and of a sequence with one more element,
\* holds of all.
LEMMA SeqInduction ==
    ASSUME NEW X, NEW P \in SUBSET Seq(X), <<>> \in P,
           \A u \in P, x \in X : Append(u, x) \in P
    PROVE  P = Seq(X)
<1> DEFINE T == {n \in Nat : \E t \in Seq(X) : Len(t) = n /\ t \notin P}
<1> SUFFICES ASSUME T # {} PROVE FALSE
  <2> SUFFICES ASSUME NEW t \in Seq(X) PROVE t \in P
    OBVIOUS
  <2> QED BY LenProperties
<1>1. PICK n \in T : \A m \in T : n <= m
  <2>1. T \in SUBSET Nat
    OBVIOUS
  <2> HIDE DEF T
  <2> QED BY <2>1, SmallestNat
<1>2. PICK t \in Seq(X) : Len(t) = n /\ t \notin P
  OBVIOUS
<1>3. t # <<>>
  BY <1>2
<1>4. PICK u \in Seq(X), x \in X : t = Append(u, x)
  BY <1>2, <1>3, SequenceEmptyOrAppend
<1>5. Len(u) \in Nat /\ Len(u) < n
  <2>1. Len(Append(u, x)) = Len(u) + 1 /\ Len(u) \in Nat
    BY <1>4, AppendProperties
  <2>2. Len(t) = n
    BY <1>2
  <2> HIDE DEF T
  <2> QED BY <1>4, <2>1, <2>2
<1>6. u \in P
  BY <1>1, <1>5
<1> QED BY <1>2, <1>4, <1>6

LEMMA FlattensSame == \A seqs : Export!FlattenSeq(seqs) = Reports!FlattenSeq(seqs)
BY DEF Export!FlattenSeq, Reports!FlattenSeq

\* One more sequence comes behind the others.
LEMMA FlattenAppend ==
    ASSUME NEW Y, NEW ss \in Seq(Seq(Y)), NEW x \in Seq(Y)
    PROVE  /\ Export!FlattenSeq(ss) \in Seq(Y)
           /\ Export!FlattenSeq(Append(ss, x)) = Export!FlattenSeq(ss) \o x
<1> DEFINE Flat(t) == Export!FlattenSeq(t)
<1>1. Flat(<<>>) = <<>>
  <2>1. Len(<<>>) = 0 /\ 0 \in Nat
    OBVIOUS
  <2> QED BY <2>1, FlattensSame, FlattenUnfold
<1>2. ASSUME NEW s \in Seq(Seq(Y)), NEW e \in Seq(Y) PROVE Flat(Append(s, e)) = Flat(s) \o e
  <2> DEFINE n == Len(s)  se == Append(s, e)
  <2>1. /\ n \in Nat /\ n + 1 \in Nat /\ Len(se) = n + 1 /\ n + 1 # 0 /\ se[n + 1] = e
        /\ \A i \in 1 .. n : se[i] = s[i] /\ i \in 1 .. n + 1
    OBVIOUS
  <2>2. PICK G : IsFlattening(G, se, n + 1) /\ Flat(se) = G[n + 1]
    BY <2>1, FlattensSame, FlattenUnfold
  <2>3. G[n + 1] = IF n + 1 = 1 THEN e ELSE G[n] \o e
    <3> DEFINE m == n + 1
    <3>1. IsFlattening(G, se, m) /\ m \in 1 .. m
      BY <2>1, <2>2
    <3>2. se[m] = e /\ m - 1 = n
      BY <2>1
    <3> HIDE DEF n, m, se, Flat
    <3>3. G[m] = IF m = 1 THEN se[m] ELSE G[m - 1] \o se[m]
      BY <3>1, FlatteningStep
    <3> QED BY <3>2, <3>3 DEF m
  <2>4. CASE n = 0
    <3>1. s = <<>> /\ <<>> \o e = e
      BY <2>4
    <3> QED BY <1>1, <2>2, <2>3, <2>4, <3>1
  <2>5. CASE n # 0
    <3>1. PICK F : IsFlattening(F, s, n) /\ Flat(s) = F[n]
      BY <2>1, <2>5, FlattensSame, FlattenUnfold
    <3> DEFINE T == {i \in 1 .. n : G[i] # F[i]}
    <3>2. T = {}
      <4> SUFFICES ASSUME T # {} PROVE FALSE
        OBVIOUS
      <4>1. PICK i \in T : \A j \in T : i <= j
        <5>1. T \in SUBSET Nat
          BY <2>1
        <5> HIDE DEF T
        <5> QED BY <5>1, SmallestNat
      <4>2. i \in 1 .. n /\ i \in 1 .. n + 1 /\ se[i] = s[i] /\ G[i] # F[i]
        BY <2>1
      <4>3. i # 1 => G[i - 1] = F[i - 1]
        BY <2>1, <4>1, <4>2
      <4>4. G[i] = IF i = 1 THEN se[i] ELSE G[i - 1] \o se[i]
        <5> DEFINE m == n + 1
        <5>1. IsFlattening(G, se, m) /\ i \in 1 .. m
          BY <2>2, <4>2
        <5> HIDE DEF se, n, m, T, Flat
        <5> QED BY <5>1, FlatteningStep
      <4>5. F[i] = IF i = 1 THEN s[i] ELSE F[i - 1] \o s[i]
        BY <3>1, <4>2, FlatteningStep
      <4> QED BY <4>2, <4>3, <4>4, <4>5
    <3>3. G[n] = F[n]
      <4>1. n \in 1 .. n
        BY <2>1, <2>5
      <4> QED BY <3>2, <4>1
    <3>4. n + 1 # 1
      BY <2>1, <2>5
    <3> HIDE DEF n, se
    <3> QED BY <2>2, <2>3, <3>1, <3>3, <3>4 DEF se
  <2> QED BY <2>4, <2>5
<1>3. Flat(ss) \in Seq(Y)
  <2> DEFINE P == {s \in Seq(Seq(Y)) : Flat(s) \in Seq(Y)}
  <2>1. <<>> \in P
    <3>1. \A X : <<>> \in Seq(X)
      OBVIOUS
    <3> QED BY <1>1, <3>1
  <2>2. ASSUME NEW s \in P, NEW e \in Seq(Y) PROVE Append(s, e) \in P
    <3>1. s \in Seq(Seq(Y)) /\ Flat(s) \in Seq(Y) /\ Append(s, e) \in Seq(Seq(Y))
      OBVIOUS
    <3>2. Flat(Append(s, e)) = Flat(s) \o e
      BY <1>2, <3>1
    <3>3. Flat(s) \o e \in Seq(Y)
      BY <3>1
    <3> HIDE DEF Flat
    <3> QED BY <3>1, <3>2, <3>3
  <2>3. P \in SUBSET Seq(Seq(Y))
    OBVIOUS
  <2> HIDE DEF P
  <2>4. P = Seq(Seq(Y))
    BY <2>1, <2>2, <2>3, SeqInduction
  <2> QED BY <2>4 DEF P
<1> QED BY <1>2, <1>3

-----------------------------------------------------------------------------
\* R follows the reader through text, from state s.
IsRun(R, s, text) ==
    /\ R[0] = s
    /\ \A k \in 1 .. Len(text) : R[k] = Export!ReadChar(R[k - 1], text[k])
Reads(s, text, r) == \E R : IsRun(R, s, text) /\ R[Len(text)] = r

LEMMA ReadsNothing == ASSUME NEW s PROVE Reads(s, <<>>, s)
<1> DEFINE R == [k \in {0} |-> s]
<1>1. IsRun(R, s, <<>>) /\ R[Len(<<>>)] = s
  BY DEF IsRun
<1> QED BY <1>1 DEF Reads

LEMMA ReadsOne == ASSUME NEW s, NEW c PROVE Reads(s, <<c>>, Export!ReadChar(s, c))
<1> DEFINE r == Export!ReadChar(s, c)  R == [k \in {0, 1} |-> IF k = 0 THEN s ELSE r]
<1>1. Len(<<c>>) = 1 /\ <<c>>[1] = c /\ R[0] = s /\ R[1] = r /\ 1 .. 1 = {1} /\ 1 - 1 = 0
  OBVIOUS
<1> HIDE DEF R
<1>2. IsRun(R, s, <<c>>)
  BY <1>1 DEF IsRun
<1> QED BY <1>1, <1>2 DEF Reads

LEMMA ReadsBoth ==
    ASSUME NEW X, NEW t \in Seq(X), NEW u \in Seq(X), NEW a, NEW b, NEW c,
           Reads(a, t, b), Reads(b, u, c)
    PROVE  Reads(a, t \o u, c)
<1>1. PICK F : IsRun(F, a, t) /\ F[Len(t)] = b
  BY DEF Reads
<1>2. PICK G : IsRun(G, b, u) /\ G[Len(u)] = c
  BY DEF Reads
<1> DEFINE n == Len(t)  m == Len(u)  tu == t \o u
           R == [k \in 0 .. n + m |-> IF k <= n THEN F[k] ELSE G[k - n]]
<1>3. /\ n \in Nat /\ m \in Nat /\ Len(tu) = n + m
      /\ \A k \in 1 .. n : tu[k] = t[k]
      /\ \A k \in n + 1 .. n + m : tu[k] = u[k - n]
  OBVIOUS
<1>4. \A k \in n .. n + m : R[k] = G[k - n]
  <2>1. R[n] = G[0]
    BY <1>1, <1>2, <1>3 DEF IsRun
  <2>2. ASSUME NEW k \in n .. n + m, k # n PROVE R[k] = G[k - n]
    BY <1>3, <2>2
  <2> QED BY <1>3, <2>1, <2>2
<1>5. \A k \in 0 .. n : R[k] = F[k]
  BY <1>3
<1>6. ASSUME NEW k \in 1 .. n + m PROVE R[k] = Export!ReadChar(R[k - 1], tu[k])
  <2> HIDE DEF R, tu, n, m
  <2>1. CASE k <= n
    <3>1. k \in 1 .. n /\ k \in 0 .. n /\ k - 1 \in 0 .. n
      BY <1>3, <2>1
    <3> QED BY <1>1, <1>3, <1>5, <3>1 DEF IsRun, n
  <2>2. CASE ~(k <= n)
    <3>1. /\ k \in n + 1 .. n + m /\ k \in n .. n + m /\ k - 1 \in n .. n + m
          /\ k - n \in 1 .. m /\ (k - 1) - n = (k - n) - 1
      BY <1>3, <2>2
    <3>2. G[k - n] = Export!ReadChar(G[(k - n) - 1], u[k - n])
      BY <1>2, <3>1 DEF IsRun, m
    <3> QED BY <1>3, <1>4, <3>1, <3>2
  <2> QED BY <2>1, <2>2
<1>7. R[0] = a /\ R[n + m] = c
  <2>1. 0 \in 0 .. n /\ n + m \in n .. n + m /\ (n + m) - n = m
    BY <1>3
  <2> HIDE DEF R, n, m
  <2>2. F[0] = a /\ G[m] = c
    BY <1>1, <1>2 DEF IsRun, m
  <2> QED BY <1>4, <1>5, <2>1, <2>2
<1> HIDE DEF R
<1> QED BY <1>3, <1>6, <1>7 DEF Reads, IsRun

\* ReadCsv ends where the reader ends.
Start == [rows |-> <<>>, row |-> <<>>, field |-> <<>>, at |-> "start"]
Letters == Export!Chars \cup {Export!BOM}

LEMMA ReadCsvEnds ==
    ASSUME NEW t \in Seq(Letters), NEW r, Reads(Start, t, r)
    PROVE  Export!ReadCsv(<<Export!BOM>> \o t) = Export!EndLine(r).rows
<1>1. PICK R : IsRun(R, Start, t) /\ R[Len(t)] = r
  BY DEF Reads
<1> DEFINE text == <<Export!BOM>> \o t  n == Len(text)
           Body(f, k) == IF k = 1 THEN Start ELSE Export!ReadChar(f[k - 1], text[k])
           IsReader(f) == f = [k \in 1 .. n |-> Body(f, k)]
           g == [k \in 1 .. n |-> R[k - 1]]
           h == CHOOSE f : IsReader(f)
<1>2. /\ n \in Nat /\ n = Len(t) + 1 /\ n >= 1
      /\ \A k \in 2 .. n : text[k] = t[k - 1]
  BY DEF Letters
<1>3. IsReader(g)
  <2>1. ASSUME NEW k \in 1 .. n PROVE g[k] = Body(g, k)
    <3>1. CASE k = 1
      <4>1. g[k] = R[0] /\ Body(g, k) = Start
        BY <3>1
      <4> QED BY <1>1, <4>1 DEF IsRun
    <3>2. CASE k # 1
      <4>1. k - 1 \in 1 .. Len(t) /\ k - 1 \in 1 .. n /\ k \in 2 .. n
        BY <1>2, <3>2
      <4>2. R[k - 1] = Export!ReadChar(R[(k - 1) - 1], t[k - 1])
        BY <1>1, <4>1 DEF IsRun
      <4>3. g[k] = R[k - 1] /\ g[k - 1] = R[(k - 1) - 1]
        BY <4>1
      <4> HIDE DEF g, text, n
      <4> QED BY <1>2, <3>2, <4>1, <4>2, <4>3
    <3> QED BY <3>1, <3>2
  <2>2. g = [k \in 1 .. n |-> g[k]]
    OBVIOUS
  <2> HIDE DEF g, Body
  <2> QED BY <2>1, <2>2
<1>4. IsReader(h)
  <2> HIDE DEF g, Body, n
  <2> QED BY <1>3
<1> HIDE DEF h, g
<1>5. \A k \in 1 .. n : h[k] = g[k]
  <2> DEFINE T == {k \in 1 .. n : h[k] # g[k]}
  <2> SUFFICES ASSUME T # {} PROVE FALSE
    OBVIOUS
  <2>1. PICK k \in T : \A j \in T : k <= j
    <3>1. T \in SUBSET Nat
      BY <1>2
    <3> HIDE DEF T
    <3> QED BY <3>1, SmallestNat
  <2>2. k \in 1 .. n /\ h[k] # g[k]
    OBVIOUS
  <2>3. k # 1 => h[k - 1] = g[k - 1]
    BY <1>2, <2>1, <2>2
  <2>4. \A f : IsReader(f) => f[k] = Body(f, k)
    <3>1. ASSUME NEW f, IsReader(f) PROVE f[k] = Body(f, k)
      <4> DEFINE e == [j \in 1 .. n |-> Body(f, j)]
      <4>1. f = e /\ e[k] = Body(f, k)
        BY <2>2, <3>1
      <4> HIDE DEF e, Body
      <4> QED BY <4>1
    <3> HIDE DEF IsReader, Body
    <3> QED BY <3>1
  <2>5. h[k] = Body(h, k) /\ g[k] = Body(g, k)
    <3> HIDE DEF IsReader, Body
    <3> QED BY <1>3, <1>4, <2>4
  <2>6. Body(h, k) = Body(g, k)
    BY <2>3
  <2> QED BY <2>2, <2>5, <2>6
<1>6. h[n] = r
  BY <1>1, <1>2, <1>5 DEF g
<1>7. Export!ReadCsv(text) = Export!EndLine(h[n]).rows
  BY DEF Export!ReadCsv, h, Start
<1> QED BY <1>6, <1>7

-----------------------------------------------------------------------------
(* The reader, character by character.                                     *)

State(rows, row, field, at) == [rows |-> rows, row |-> row, field |-> field, at |-> at]

\* A comma ends a cell.
LEMMA CommaSteps ==
    ASSUME NEW rows, NEW row, NEW field
    PROVE  /\ Export!ReadChar(State(rows, row, field, "start"), Export!Comma)
             = State(rows, Append(row, field), <<>>, "start")
           /\ Export!ReadChar(State(rows, row, field, "text"), Export!Comma)
             = State(rows, Append(row, field), <<>>, "start")
           /\ Export!ReadChar(State(rows, row, field, "closing"), Export!Comma)
             = State(rows, Append(row, field), <<>>, "start")
<1> USE DEF State, Export!ReadChar, Export!ReadPlain, Export!EndField, Export!EndLine, Export!Text,
            Export!Comma, Export!Quote, Export!LF, Export!CR, Export!Letter, Export!Chars
<1>1. Export!ReadChar(State(rows, row, field, "start"), Export!Comma)
       = State(rows, Append(row, field), <<>>, "start")
  OBVIOUS
<1>2. Export!ReadChar(State(rows, row, field, "text"), Export!Comma)
       = State(rows, Append(row, field), <<>>, "start")
  OBVIOUS
<1>3. Export!ReadChar(State(rows, row, field, "closing"), Export!Comma)
       = State(rows, Append(row, field), <<>>, "start")
  OBVIOUS
<1> HIDE DEF State, Export!ReadChar, Export!Comma, Export!Quote, Export!LF, Export!CR,
             Export!Letter, Export!Chars
<1> QED BY <1>1, <1>2, <1>3

\* Outside quotes: a carriage return ends a line, and a line feed belongs to it.
LEMMA PlainSteps ==
    ASSUME NEW rows, NEW row, NEW field
    PROVE  /\ Export!ReadChar(State(rows, row, field, "start"), Export!Letter)
             = State(rows, row, Append(field, Export!Letter), "text")
           /\ Export!ReadChar(State(rows, row, field, "text"), Export!Letter)
             = State(rows, row, Append(field, Export!Letter), "text")
           /\ Export!ReadChar(State(rows, row, field, "text"), Export!CR)
             = State(Append(rows, Append(row, field)), <<>>, <<>>, "return")
           /\ Export!ReadChar(State(rows, row, field, "return"), Export!LF)
             = State(rows, row, field, "start")
<1> USE DEF State, Export!ReadChar, Export!ReadPlain, Export!EndField, Export!EndLine, Export!Text,
            Export!Comma, Export!Quote, Export!LF, Export!CR, Export!Letter, Export!Chars
<1>1. Export!ReadChar(State(rows, row, field, "start"), Export!Letter)
       = State(rows, row, Append(field, Export!Letter), "text")
  OBVIOUS
<1>2. Export!ReadChar(State(rows, row, field, "text"), Export!Letter)
       = State(rows, row, Append(field, Export!Letter), "text")
  OBVIOUS
<1>3. Export!ReadChar(State(rows, row, field, "text"), Export!CR)
       = State(Append(rows, Append(row, field)), <<>>, <<>>, "return")
  OBVIOUS
<1>4. Export!ReadChar(State(rows, row, field, "return"), Export!LF)
       = State(rows, row, field, "start")
  OBVIOUS
<1> HIDE DEF State, Export!ReadChar, Export!Comma, Export!Quote, Export!LF, Export!CR,
             Export!Letter, Export!Chars
<1> QED BY <1>1, <1>2, <1>3, <1>4

\* Into, inside and out of quotes.
LEMMA QuoteSteps ==
    ASSUME NEW rows, NEW row, NEW field
    PROVE  /\ Export!ReadChar(State(rows, row, field, "start"), Export!Quote)
             = State(rows, row, field, "quoted")
           /\ Export!ReadChar(State(rows, row, field, "quoted"), Export!Quote)
             = State(rows, row, field, "closing")
           /\ Export!ReadChar(State(rows, row, field, "closing"), Export!Quote)
             = State(rows, row, Append(field, Export!Quote), "quoted")
           /\ \A c \in Export!Chars \ {Export!Quote} :
              Export!ReadChar(State(rows, row, field, "quoted"), c)
                = State(rows, row, Append(field, c), "quoted")
<1> USE DEF State, Export!ReadChar, Export!ReadPlain, Export!EndField, Export!EndLine, Export!Text,
            Export!Comma, Export!Quote, Export!LF, Export!CR, Export!Letter, Export!Chars
<1>1. Export!ReadChar(State(rows, row, field, "start"), Export!Quote)
       = State(rows, row, field, "quoted")
  OBVIOUS
<1>2. Export!ReadChar(State(rows, row, field, "quoted"), Export!Quote)
       = State(rows, row, field, "closing")
  OBVIOUS
<1>3. Export!ReadChar(State(rows, row, field, "closing"), Export!Quote)
       = State(rows, row, Append(field, Export!Quote), "quoted")
  OBVIOUS
<1>4. \A c \in Export!Chars \ {Export!Quote} :
        Export!ReadChar(State(rows, row, field, "quoted"), c)
          = State(rows, row, Append(field, c), "quoted")
  <2> HIDE DEF Export!ReadPlain, Export!Chars, Export!Quote
  <2> QED OBVIOUS
<1> HIDE DEF State, Export!ReadChar, Export!Comma, Export!Quote, Export!LF, Export!CR,
             Export!Letter, Export!Chars
<1> QED BY <1>1, <1>2, <1>3, <1>4

\* The reader has the text of a cell.
HasRead(s, rows, row, text) ==
    \E at \in {"start", "text", "closing"} : s = State(rows, row, text, at)

LEMMA PlainCellIsRead ==
    ASSUME NEW rows, NEW row, NEW text \in Seq({Export!Letter})
    PROVE  \E s : /\ Reads(State(rows, row, <<>>, "start"), text, s)
                  /\ HasRead(s, rows, row, text)
<1> DEFINE X == {Export!Letter}  s0 == State(rows, row, <<>>, "start")
           \* A quote never closes what no quote opened.
           Read(s, t) == s = State(rows, row, t, "start") \/ s = State(rows, row, t, "text")
           P == {t \in Seq(X) : \E s : Reads(s0, t, s) /\ Read(s, t)}
<1>1. <<>> \in P
  <2>1. <<>> \in Seq(X) /\ Reads(s0, <<>>, s0) /\ Read(s0, <<>>)
    BY ReadsNothing
  <2> HIDE DEF s0, Read
  <2> QED BY <2>1
<1>2. ASSUME NEW t \in P, NEW c \in X PROVE Append(t, c) \in P
  <2>1. PICK s : Reads(s0, t, s) /\ Read(s, t)
    OBVIOUS
  <2> DEFINE r == Export!ReadChar(s, c)  tc == Append(t, c)
  <2>2. t \in Seq(X) /\ tc \in Seq(X) /\ <<c>> \in Seq(X) /\ tc = t \o <<c>>
    BY AppendIsConcat
  <2>3. Reads(s0, tc, r)
    <3>1. Reads(s, <<c>>, r)
      BY ReadsOne
    <3> HIDE DEF r, s0, Read, tc, X
    <3> QED BY <2>1, <2>2, <3>1, ReadsBoth
  <2>4. r = State(rows, row, tc, "text")
    <3>1. c = Export!Letter
      OBVIOUS
    <3>2. /\ Export!ReadChar(State(rows, row, t, "start"), c) = State(rows, row, tc, "text")
          /\ Export!ReadChar(State(rows, row, t, "text"), c) = State(rows, row, tc, "text")
      BY <3>1, PlainSteps
    <3> HIDE DEF tc
    <3> QED BY <2>1, <3>2
  <2>5. Read(r, tc)
    BY <2>4
  <2> HIDE DEF r, tc, s0, Read
  <2> QED BY <2>2, <2>3, <2>5 DEF tc
<1>3. P \in SUBSET Seq(X)
  OBVIOUS
<1>4. P = Seq(X)
  <2> HIDE DEF P, X
  <2> QED BY <1>1, <1>2, <1>3, SeqInduction
<1>5. PICK s : Reads(s0, text, s) /\ Read(s, text)
  BY <1>4
<1>6. HasRead(s, rows, row, text)
  BY <1>5 DEF HasRead
<1> QED BY <1>5, <1>6

\* What Doubled makes of a character.
Twice(c) == IF c = Export!Quote THEN <<Export!Quote, Export!Quote>> ELSE <<c>>

LEMMA DoubledAppend ==
    ASSUME NEW t \in Seq(Export!Chars), NEW c \in Export!Chars
    PROVE  /\ Export!Doubled(<<>>) = <<>> /\ Export!Doubled(t) \in Seq(Export!Chars)
           /\ Twice(c) \in Seq(Export!Chars)
           /\ Export!Doubled(Append(t, c)) = Export!Doubled(t) \o Twice(c)
<1> DEFINE X == Export!Chars  ss(u) == [i \in DOMAIN u |-> Twice(u[i])]
<1>1. \A e \in X : Twice(e) \in Seq(X)
  BY DEF Twice
<1>2. \A u : Export!Doubled(u) = Export!FlattenSeq(ss(u))
  BY DEF Export!Doubled, Twice
<1>3. \A u \in Seq(X) : ss(u) \in Seq(Seq(X)) /\ Len(ss(u)) = Len(u)
  <2>1. ASSUME NEW u \in Seq(X) PROVE ss(u) \in Seq(Seq(X)) /\ Len(ss(u)) = Len(u)
    <3>1. DOMAIN u = 1 .. Len(u) /\ Len(u) \in Nat /\ \A i \in 1 .. Len(u) : u[i] \in X
      BY ElementOfSeq
    <3>2. \A i \in 1 .. Len(u) : ss(u)[i] \in Seq(X)
      BY <1>1, <3>1
    <3>3. ss(u) \in [1 .. Len(u) -> Seq(X)]
      BY <3>1, <3>2
    <3> QED BY <3>1, <3>3
  <2> QED BY <2>1
<1>4. ss(Append(t, c)) = Append(ss(t), Twice(c))
  <2> DEFINE tc == Append(t, c)  a == ss(tc)  b == Append(ss(t), Twice(c))  n == Len(t)
  <2>1. /\ tc \in Seq(X) /\ Len(tc) = n + 1 /\ n \in Nat /\ tc[n + 1] = c
        /\ DOMAIN tc = 1 .. n + 1 /\ DOMAIN t = 1 .. n
        /\ \A i \in 1 .. n : tc[i] = t[i]
    OBVIOUS
  <2>2. a \in Seq(Seq(X)) /\ Len(a) = n + 1
    BY <1>3, <2>1
  <2>3. ss(t) \in Seq(Seq(X)) /\ Len(ss(t)) = n /\ Twice(c) \in Seq(X)
    BY <1>1, <1>3
  <2>4. /\ b \in Seq(Seq(X)) /\ Len(b) = n + 1 /\ b[n + 1] = Twice(c)
        /\ \A i \in 1 .. n : b[i] = ss(t)[i]
    <3> HIDE DEF ss
    <3> QED BY <2>3, AppendProperties
  <2>5. \A i \in 1 .. n : b[i] = Twice(t[i]) /\ a[i] = Twice(t[i])
    BY <2>1, <2>4
  <2>6. a[n + 1] = Twice(c)
    BY <2>1
  <2> HIDE DEF a, b
  <2>7. \A i \in 1 .. Len(a) : a[i] = b[i]
    <3>1. \A i \in 1 .. n + 1 : i = n + 1 \/ i \in 1 .. n
      BY <2>1
    <3> HIDE DEF n, ss
    <3> QED BY <2>2, <2>4, <2>5, <2>6, <3>1
  <2>8. a = b
    BY <2>2, <2>4, <2>7, SeqEqual
  <2> QED BY <2>8 DEF a, b
<1>5. Export!Doubled(<<>>) = <<>>
  <2>1. ss(<<>>) = <<>> /\ Len(<<>>) = 0
    OBVIOUS
  <2>2. Export!FlattenSeq(<<>>) = <<>>
    BY <2>1, FlattensSame, FlattenUnfold
  <2> QED BY <1>2, <2>1, <2>2
<1>6. ss(t) \in Seq(Seq(X)) /\ Twice(c) \in Seq(X)
  BY <1>1, <1>3
<1> HIDE DEF ss, X
<1>7. /\ Export!FlattenSeq(ss(t)) \in Seq(X)
      /\ Export!FlattenSeq(Append(ss(t), Twice(c))) = Export!FlattenSeq(ss(t)) \o Twice(c)
  BY <1>6, FlattenAppend
<1> QED BY <1>2, <1>4, <1>5, <1>6, <1>7 DEF X
-----------------------------------------------------------------------------
\* b is a with e behind it.
LEMMA IsAppend ==
    ASSUME NEW Y, NEW a \in Seq(Y), NEW b \in Seq(Y), NEW e \in Y,
           Len(b) = Len(a) + 1, b[Len(b)] = e, \A i \in 1 .. Len(a) : b[i] = a[i]
    PROVE  b = Append(a, e)
<1> DEFINE ae == Append(a, e)  n == Len(a)
<1>1. ae \in Seq(Y) /\ Len(ae) = n + 1 /\ ae[n + 1] = e /\ \A i \in 1 .. n : ae[i] = a[i]
  BY AppendProperties
<1>2. n \in Nat /\ \A i \in 1 .. n + 1 : i = n + 1 \/ i \in 1 .. n
  OBVIOUS
<1> HIDE DEF ae
<1>3. \A i \in 1 .. Len(b) : b[i] = ae[i]
  BY <1>1, <1>2
<1>4. b = ae
  BY <1>1, <1>3, SeqEqual
<1> QED BY <1>4 DEF ae

LEMMA JoinOne ==
    ASSUME NEW Y, NEW sep \in Seq(Y), NEW x \in Seq(Y)
    PROVE  Export!JoinedBy(sep, <<x>>) = x
<1> DEFINE parts == <<x>>
           f == [i \in DOMAIN parts |-> IF i = 1 THEN parts[i] ELSE sep \o parts[i]]
<1>1. f = Append(<<>>, x) /\ x = <<>> \o x /\ <<>> \in Seq(Seq(Y))
  OBVIOUS
<1>2. Export!FlattenSeq(<<>>) = <<>>
  <2>1. Len(<<>>) = 0 /\ 0 \in Nat
    OBVIOUS
  <2> QED BY <2>1, FlattensSame, FlattenUnfold
<1> HIDE DEF f
<1>3. Export!FlattenSeq(f) = x
  BY <1>1, <1>2, FlattenAppend
<1> QED BY <1>3 DEF Export!JoinedBy, f

\* One more part comes behind a separator.
LEMMA JoinAppend ==
    ASSUME NEW Y, NEW sep \in Seq(Y), NEW parts \in Seq(Seq(Y)), parts # <<>>, NEW x \in Seq(Y)
    PROVE  /\ Export!JoinedBy(sep, parts) \in Seq(Y)
           /\ Export!JoinedBy(sep, Append(parts, x)) = Export!JoinedBy(sep, parts) \o (sep \o x)
<1> DEFINE f(p) == [i \in DOMAIN p |-> IF i = 1 THEN p[i] ELSE sep \o p[i]]
           n == Len(parts)  px == Append(parts, x)  a == f(parts)  b == f(px)  e == sep \o x
<1>1. /\ n \in Nat /\ n # 0 /\ DOMAIN parts = 1 .. n /\ \A i \in 1 .. n : parts[i] \in Seq(Y)
      /\ px \in Seq(Seq(Y)) /\ Len(px) = n + 1 /\ px[n + 1] = x /\ DOMAIN px = 1 .. n + 1
      /\ \A i \in 1 .. n : px[i] = parts[i]
      /\ e \in Seq(Y) /\ \A y \in Seq(Y) : sep \o y \in Seq(Y)
  OBVIOUS
<1>2. a \in Seq(Seq(Y)) /\ Len(a) = n
  <2>1. a \in [1 .. n -> Seq(Y)]
    BY <1>1
  <2> QED BY <1>1, <2>1
<1>3. b \in Seq(Seq(Y)) /\ Len(b) = n + 1
  <2>1. \A i \in 1 .. n + 1 : px[i] \in Seq(Y)
    BY <1>1, ElementOfSeq
  <2>2. b \in [1 .. n + 1 -> Seq(Y)]
    BY <1>1, <2>1
  <2> QED BY <1>1, <2>2
<1>4. /\ b[n + 1] = e
      /\ \A i \in 1 .. n : b[i] = a[i]
  BY <1>1
<1> HIDE DEF a, b, e, n, px
<1>5. b = Append(a, e)
  BY <1>1, <1>2, <1>3, <1>4, IsAppend
<1>6. /\ Export!FlattenSeq(a) \in Seq(Y)
      /\ Export!FlattenSeq(Append(a, e)) = Export!FlattenSeq(a) \o e
  BY <1>1, <1>2, FlattenAppend
<1> QED BY <1>5, <1>6 DEF Export!JoinedBy, a, b, e, px

-----------------------------------------------------------------------------
\* Tuples, element by element.
LEMMA Single ==
    ASSUME NEW Y, NEW a \in Y
    PROVE  Append(<<>>, a) = <<a>>
<1> DEFINE t == <<>>  u == <<a>>
<1>1. t \in Seq(Y) /\ u \in Seq(Y)
  OBVIOUS
<1>2. Len(u) = Len(t) + 1 /\ u[Len(u)] = a /\ \A i \in 1 .. Len(t) : u[i] = t[i]
  OBVIOUS
<1> HIDE DEF t, u
<1>3. u = Append(t, a)
  BY <1>1, <1>2, IsAppend
<1> QED BY <1>3 DEF t, u

LEMMA Pair ==
    ASSUME NEW Y, NEW a \in Y, NEW b \in Y
    PROVE  Append(<<a>>, b) = <<a, b>> /\ <<a>> \o <<b>> = <<a, b>>
<1> DEFINE t == <<a>>  u == <<a, b>>
<1>1. t \in Seq(Y) /\ u \in Seq(Y)
  OBVIOUS
<1>2. Len(u) = Len(t) + 1 /\ u[Len(u)] = b /\ \A i \in 1 .. Len(t) : u[i] = t[i]
  OBVIOUS
<1> HIDE DEF t, u
<1>3. u = Append(t, b)
  BY <1>1, <1>2, IsAppend
<1>4. Append(t, b) = t \o <<b>>
  BY <1>1, AppendIsConcat
<1> QED BY <1>3, <1>4 DEF t, u

LEMMA Triple ==
    ASSUME NEW Y, NEW a \in Y, NEW b \in Y, NEW c \in Y
    PROVE  Append(<<a, b>>, c) = <<a, b, c>>
<1> DEFINE t == <<a, b>>  u == <<a, b, c>>
<1>1. t \in Seq(Y) /\ u \in Seq(Y)
  OBVIOUS
<1>2. Len(u) = Len(t) + 1 /\ u[Len(u)] = c /\ \A i \in 1 .. Len(t) : u[i] = t[i]
  OBVIOUS
<1> HIDE DEF t, u
<1>3. u = Append(t, c)
  BY <1>1, <1>2, IsAppend
<1> QED BY <1>3 DEF t, u

LEMMA Quadruple ==
    ASSUME NEW Y, NEW a \in Y, NEW b \in Y, NEW c \in Y, NEW d \in Y
    PROVE  Append(<<a, b, c>>, d) = <<a, b, c, d>>
<1> DEFINE t == <<a, b, c>>  u == <<a, b, c, d>>
<1>1. t \in Seq(Y) /\ u \in Seq(Y)
  OBVIOUS
<1>2. Len(u) = Len(t) + 1 /\ u[Len(u)] = d /\ \A i \in 1 .. Len(t) : u[i] = t[i]
  OBVIOUS
<1> HIDE DEF t, u
<1>3. u = Append(t, d)
  BY <1>1, <1>2, IsAppend
<1> QED BY <1>3 DEF t, u

LEMMA QuotedIsRead ==
    ASSUME NEW rows, NEW row, NEW text \in Seq(Export!Chars)
    PROVE  Reads(State(rows, row, <<>>, "quoted"), Export!Doubled(text),
                 State(rows, row, text, "quoted"))
<1> DEFINE X == Export!Chars  q(t) == State(rows, row, t, "quoted")
           P == {t \in Seq(X) : Reads(q(<<>>), Export!Doubled(t), q(t))}
<1>1. <<>> \in P
  <2>1. Export!Doubled(<<>>) = <<>>
    <3>1. <<>> \in Seq(X) /\ Export!Comma \in X
      BY DEF Export!Chars
    <3> QED BY <3>1, DoubledAppend
  <2> HIDE DEF q
  <2> QED BY <2>1, ReadsNothing
<1>2. ASSUME NEW t \in P, NEW c \in X PROVE Append(t, c) \in P
  <2> DEFINE tc == Append(t, c)
  <2>1. t \in Seq(X) /\ tc \in Seq(X) /\ Reads(q(<<>>), Export!Doubled(t), q(t))
    BY DEF P
  <2>2. /\ Export!Doubled(t) \in Seq(X) /\ Twice(c) \in Seq(X)
        /\ Export!Doubled(tc) = Export!Doubled(t) \o Twice(c)
    BY <2>1, DoubledAppend
  <2>3. Reads(q(t), Twice(c), q(tc))
    <3>1. CASE c = Export!Quote
      <4> DEFINE m == State(rows, row, t, "closing")
      <4>1. Export!ReadChar(q(t), c) = m /\ Export!ReadChar(m, c) = q(tc)
        BY <3>1, QuoteSteps
      <4>2. Reads(q(t), <<c>>, m) /\ Reads(m, <<c>>, q(tc))
        <5> HIDE DEF q, m, tc
        <5>1. Reads(q(t), <<c>>, Export!ReadChar(q(t), c)) /\ Reads(m, <<c>>, Export!ReadChar(m, c))
          BY ReadsOne
        <5> QED BY <4>1, <5>1
      <4>3. <<c>> \in Seq(X) /\ <<c>> \o <<c>> = <<c, c>>
        <5> HIDE DEF P, X, q, m, tc
        <5>1. <<c>> \in Seq(X)
          OBVIOUS
        <5>2. <<c>> \o <<c>> = <<c, c>>
          BY Pair
        <5> QED BY <5>1, <5>2
      <4> HIDE DEF q, m, tc, X
      <4>4. Reads(q(t), <<c>> \o <<c>>, q(tc))
        BY <4>2, <4>3, ReadsBoth
      <4> QED BY <3>1, <4>3, <4>4 DEF Twice
    <3>2. CASE c # Export!Quote
      <4>1. Export!ReadChar(q(t), c) = q(tc)
        BY <3>2, QuoteSteps
      <4> HIDE DEF q, tc
      <4>2. Reads(q(t), <<c>>, Export!ReadChar(q(t), c))
        BY ReadsOne
      <4> QED BY <3>2, <4>1, <4>2 DEF Twice
    <3> QED BY <3>1, <3>2
  <2> HIDE DEF q, tc, X
  <2>4. Reads(q(<<>>), Export!Doubled(t) \o Twice(c), q(tc))
    BY <2>1, <2>2, <2>3, ReadsBoth
  <2> QED BY <2>1, <2>2, <2>4 DEF tc
<1>3. P \in SUBSET Seq(X)
  OBVIOUS
<1> HIDE DEF q, X
<1>4. P = Seq(X)
  <2> HIDE DEF P
  <2> QED BY <1>1, <1>2, <1>3, SeqInduction
<1> QED BY <1>4 DEF q, X

\* What is written in a cell, with quotes or without.
LEMMA EscapeIsText ==
    ASSUME NEW text \in Seq(Export!Chars)
    PROVE  /\ Export!Doubled(text) \in Seq(Export!Chars) /\ Export!CsvEscape(text) \in Seq(Export!Chars)
           /\ Export!NeedsQuotes(text) => Export!CsvEscape(text)
                 = (<<Export!Quote>> \o Export!Doubled(text)) \o <<Export!Quote>>
           /\ ~Export!NeedsQuotes(text) => Export!CsvEscape(text) = text
<1> DEFINE X == Export!Chars  Q == Export!Quote  D == Export!Doubled(text)
<1>1. Q \in X /\ Export!Comma \in X
  BY DEF Export!Chars
<1>2. D \in Seq(X)
  BY <1>1, DoubledAppend
<1>3. /\ Export!NeedsQuotes(text) => Export!CsvEscape(text) = (<<Q>> \o D) \o <<Q>>
      /\ ~Export!NeedsQuotes(text) => Export!CsvEscape(text) = text
  BY DEF Export!CsvEscape
<1> HIDE DEF D, Q, X
<1>4. (<<Q>> \o D) \o <<Q>> \in Seq(X)
  BY <1>1, <1>2
<1>5. text \in Seq(X)
  BY DEF X
<1>6. Export!CsvEscape(text) \in Seq(X)
  BY <1>3, <1>4, <1>5
<1> QED BY <1>2, <1>3, <1>6 DEF D, Q, X

\* A cell of the export is read as the text that went into it.
LEMMA CellIsRead ==
    ASSUME NEW rows, NEW row, NEW text \in Seq(Export!Chars), Export!Portable(text)
    PROVE  \E s : /\ Reads(State(rows, row, <<>>, "start"), Export!CsvEscape(text), s)
                  /\ HasRead(s, rows, row, text)
<1> DEFINE X == Export!Chars  Q == Export!Quote  D == Export!Doubled(text)
           at(f, a) == State(rows, row, f, a)
<1>1. CASE Export!NeedsQuotes(text)
  <2>1. D \in Seq(X) /\ <<Q>> \in Seq(X) /\ <<Q>> \o D \in Seq(X) /\ (<<Q>> \o D) \o <<Q>> \in Seq(X)
    <3>1. Q \in X
      BY DEF Export!Chars
    <3>2. D \in Seq(X)
      BY EscapeIsText
    <3> HIDE DEF D, Q, X
    <3> QED BY <3>1, <3>2
  <2>2. Export!CsvEscape(text) = (<<Q>> \o D) \o <<Q>>
    BY <1>1, EscapeIsText
  <2>3. /\ Export!ReadChar(at(<<>>, "start"), Q) = at(<<>>, "quoted")
        /\ Export!ReadChar(at(text, "quoted"), Q) = at(text, "closing")
    BY QuoteSteps
  <2>4. Reads(at(<<>>, "quoted"), D, at(text, "quoted"))
    BY QuotedIsRead
  <2> HIDE DEF at, D, Q, X
  <2>5. /\ Reads(at(<<>>, "start"), <<Q>>, at(<<>>, "quoted"))
        /\ Reads(at(text, "quoted"), <<Q>>, at(text, "closing"))
    <3>1. /\ Reads(at(<<>>, "start"), <<Q>>, Export!ReadChar(at(<<>>, "start"), Q))
          /\ Reads(at(text, "quoted"), <<Q>>, Export!ReadChar(at(text, "quoted"), Q))
      BY ReadsOne
    <3> QED BY <2>3, <3>1
  <2>6. Reads(at(<<>>, "start"), <<Q>> \o D, at(text, "quoted"))
    BY <2>1, <2>4, <2>5, ReadsBoth
  <2>7. Reads(at(<<>>, "start"), (<<Q>> \o D) \o <<Q>>, at(text, "closing"))
    BY <2>1, <2>5, <2>6, ReadsBoth
  <2>8. HasRead(at(text, "closing"), rows, row, text)
    BY DEF HasRead, at
  <2> QED BY <2>2, <2>7, <2>8 DEF at
<1>2. CASE ~Export!NeedsQuotes(text)
  <2>1. Export!CsvEscape(text) = text
    BY <1>2, EscapeIsText
  <2>2. text \in Seq({Export!Letter})
    <3>1. DOMAIN text = 1 .. Len(text) /\ \A i \in 1 .. Len(text) : text[i] \in Export!Chars
      BY ElementOfSeq
    <3>2. \A i \in 1 .. Len(text) : text[i] # Export!CR
      BY <1>2, <3>1 DEF Export!Portable
    <3>3. \A i \in 1 .. Len(text) : text[i] \in {Export!Letter}
      BY <1>2, <3>1, <3>2 DEF Export!NeedsQuotes, Export!Chars
    <3>4. text \in [1 .. Len(text) -> {Export!Letter}] /\ Len(text) \in Nat
      BY <3>3
    <3> QED BY <3>4
  <2> QED BY <2>1, <2>2, PlainCellIsRead
<1> QED BY <1>1, <1>2

\* A comma ends a cell, and nothing of it is lost.
LEMMA CommaEndsCell ==
    ASSUME NEW rows, NEW row, NEW text, NEW s, HasRead(s, rows, row, text)
    PROVE  Reads(s, <<Export!Comma>>, State(rows, Append(row, text), <<>>, "start"))
<1> DEFINE Ends(b) == Export!ReadChar(State(rows, row, text, b), Export!Comma)
                        = State(rows, Append(row, text), <<>>, "start")
<1>1. Ends("start") /\ Ends("text") /\ Ends("closing")
  BY CommaSteps
<1>2. Export!ReadChar(s, Export!Comma) = State(rows, Append(row, text), <<>>, "start")
  BY <1>1 DEF HasRead
<1> QED BY <1>2, ReadsOne

-----------------------------------------------------------------------------
(* A line has four cells, of which the first and the last are one letter.  *)

LetterCell == <<Export!Letter>>
Cells(b, c) == <<LetterCell, b, c, LetterCell>>

LEMMA LetterIsRead ==
    ASSUME NEW rows, NEW row
    PROVE  Export!ReadChar(State(rows, row, <<>>, "start"), Export!Letter)
             = State(rows, row, LetterCell, "text")
<1>1. Export!ReadChar(State(rows, row, <<>>, "start"), Export!Letter)
        = State(rows, row, Append(<<>>, Export!Letter), "text")
  <2> DEFINE e == <<>>
  <2> HIDE DEF e
  <2>1. Export!ReadChar(State(rows, row, e, "start"), Export!Letter)
          = State(rows, row, Append(e, Export!Letter), "text")
    BY PlainSteps
  <2> QED BY <2>1 DEF e
<1>2. Append(<<>>, Export!Letter) = LetterCell
  BY Single DEF LetterCell
<1> QED BY <1>1, <1>2

LEMMA LetterStays == Export!CsvEscape(LetterCell) = LetterCell
<1>1. ~Export!NeedsQuotes(LetterCell)
  <2>1. DOMAIN <<Export!Letter>> = {1} /\ <<Export!Letter>>[1] = Export!Letter
    OBVIOUS
  <2>2. Export!Letter \notin {Export!Quote, Export!Comma, Export!LF}
    BY DEF Export!Letter, Export!Quote, Export!Comma, Export!LF
  <2> QED BY <2>1, <2>2 DEF Export!NeedsQuotes, LetterCell
<1> QED BY <1>1 DEF Export!CsvEscape

LEMMA LetterIsPortable == Export!Portable(LetterCell)
<1>1. DOMAIN <<Export!Letter>> = {1} /\ <<Export!Letter>>[1] = Export!Letter
  OBVIOUS
<1>2. Export!Letter # Export!CR
  BY DEF Export!Letter, Export!CR
<1> QED BY <1>1, <1>2 DEF Export!Portable, LetterCell

LEMMA LineText ==
    ASSUME NEW b \in Seq(Export!Chars), NEW c \in Seq(Export!Chars)
    PROVE  LET x == Export!CsvEscape(b)  y == Export!CsvEscape(c)  comma == <<Export!Comma>>
           IN  /\ x \in Seq(Export!Chars) /\ y \in Seq(Export!Chars)
               /\ Export!JoinedBy(comma, [i \in 1 .. 4 |-> Export!CsvEscape(Cells(b, c)[i])])
                    = ((LetterCell \o (comma \o x)) \o (comma \o y)) \o (comma \o LetterCell)
               /\ ((LetterCell \o (comma \o x)) \o (comma \o y)) \o (comma \o LetterCell)
                    \in Seq(Export!Chars)
<1> DEFINE X == Export!Chars  x == Export!CsvEscape(b)  y == Export!CsvEscape(c)
           comma == <<Export!Comma>>  L == LetterCell
           cells == [i \in 1 .. 4 |-> Export!CsvEscape(Cells(b, c)[i])]
<1>1. x \in Seq(X) /\ y \in Seq(X)
  BY EscapeIsText
<1>2. comma \in Seq(X) /\ L \in Seq(X)
  BY DEF Export!Chars, LetterCell
<1>3. Export!CsvEscape(L) = L
  BY LetterStays
<1>4. cells = <<L, x, y, L>>
  BY <1>3 DEF Cells
<1> HIDE DEF x, y, L, comma, cells, X
<1> DEFINE p1 == <<L>>  p2 == <<L, x>>  p3 == <<L, x, y>>
<1>5. /\ p1 \in Seq(Seq(X)) /\ p2 \in Seq(Seq(X)) /\ p3 \in Seq(Seq(X))
      /\ p1 # <<>> /\ p2 # <<>> /\ p3 # <<>>
      /\ p2 = Append(p1, x) /\ p3 = Append(p2, y) /\ cells = Append(p3, L)
  <2>1. /\ p1 \in Seq(Seq(X)) /\ p2 \in Seq(Seq(X)) /\ p3 \in Seq(Seq(X))
        /\ p1 # <<>> /\ p2 # <<>> /\ p3 # <<>>
    BY <1>1, <1>2
  <2>2. p2 = Append(p1, x) /\ p3 = Append(p2, y) /\ <<L, x, y, L>> = Append(p3, L)
    <3>1. L \in Seq(X) /\ x \in Seq(X) /\ y \in Seq(X)
      BY <1>1, <1>2
    <3>2. <<L, x>> = Append(<<L>>, x)
      BY <3>1, Pair
    <3>3. <<L, x, y>> = Append(<<L, x>>, y)
      BY <3>1, Triple
    <3>4. <<L, x, y, L>> = Append(<<L, x, y>>, L)
      BY <3>1, Quadruple
    <3> QED BY <3>2, <3>3, <3>4
  <2> QED BY <1>4, <2>1, <2>2
<1>6. Export!JoinedBy(comma, p1) = L
  BY <1>2, JoinOne
<1> HIDE DEF p1, p2, p3
<1>7. Export!JoinedBy(comma, p2) = L \o (comma \o x)
  <2>1. Export!JoinedBy(comma, Append(p1, x)) = Export!JoinedBy(comma, p1) \o (comma \o x)
    <3>1. comma \in Seq(X) /\ p1 \in Seq(Seq(X)) /\ p1 # <<>> /\ x \in Seq(X)
      BY <1>1, <1>2, <1>5
    <3> QED BY <3>1, JoinAppend
  <2> QED BY <1>5, <1>6, <2>1
<1>8. Export!JoinedBy(comma, p3) = (L \o (comma \o x)) \o (comma \o y)
  <2>1. Export!JoinedBy(comma, Append(p2, y)) = Export!JoinedBy(comma, p2) \o (comma \o y)
    <3>1. comma \in Seq(X) /\ p2 \in Seq(Seq(X)) /\ p2 # <<>> /\ y \in Seq(X)
      BY <1>1, <1>2, <1>5
    <3> QED BY <3>1, JoinAppend
  <2> QED BY <1>5, <1>7, <2>1
<1>9. Export!JoinedBy(comma, cells)
        = ((L \o (comma \o x)) \o (comma \o y)) \o (comma \o L)
  <2>1. Export!JoinedBy(comma, Append(p3, L)) = Export!JoinedBy(comma, p3) \o (comma \o L)
    <3>1. comma \in Seq(X) /\ p3 \in Seq(Seq(X)) /\ p3 # <<>> /\ L \in Seq(X)
      BY <1>2, <1>5
    <3> QED BY <3>1, JoinAppend
  <2> QED BY <1>5, <1>8, <2>1
<1>10. ((L \o (comma \o x)) \o (comma \o y)) \o (comma \o L) \in Seq(X)
  BY <1>1, <1>2
<1> QED BY <1>1, <1>9, <1>10 DEF x, y, L, comma, cells, X

\* A comma, then a cell: the cell before is complete, and this one is read.
LEMMA NextCellIsRead ==
    ASSUME NEW rows, NEW row, NEW before, NEW text \in Seq(Export!Chars), Export!Portable(text),
           NEW s, HasRead(s, rows, row, before)
    PROVE  /\ <<Export!Comma>> \o Export!CsvEscape(text) \in Seq(Export!Chars)
           /\ \E r : /\ Reads(s, <<Export!Comma>> \o Export!CsvEscape(text), r)
                     /\ HasRead(r, rows, Append(row, before), text)
<1> DEFINE comma == <<Export!Comma>>  x == Export!CsvEscape(text)  X == Export!Chars
           m == State(rows, Append(row, before), <<>>, "start")
<1>1. comma \in Seq(X)
  BY DEF Export!Chars
<1>2. Reads(s, comma, m)
  BY CommaEndsCell
<1>3. x \in Seq(X)
  BY EscapeIsText
<1>4. PICK r : Reads(m, x, r) /\ HasRead(r, rows, Append(row, before), text)
  BY CellIsRead
<1> HIDE DEF comma, x, X, m
<1>5. comma \o x \in Seq(X)
  BY <1>1, <1>3
<1>6. Reads(s, comma \o x, r)
  BY <1>1, <1>2, <1>3, <1>4, ReadsBoth
<1> QED BY <1>4, <1>5, <1>6 DEF comma, x, X

\* The reader has read a line but for its end.
AtLineEnd(s, rows, line) ==
    \E row : s = State(rows, row, LetterCell, "text") /\ Append(row, LetterCell) = line

LEMMA LineIsRead ==
    ASSUME NEW rows, NEW b \in Seq(Export!Chars), NEW c \in Seq(Export!Chars),
           Export!Portable(b), Export!Portable(c)
    PROVE  LET line == Export!JoinedBy(<<Export!Comma>>,
                                       [i \in 1 .. 4 |-> Export!CsvEscape(Cells(b, c)[i])])
           IN  /\ line \in Seq(Export!Chars)
               /\ \E s : /\ Reads(State(rows, <<>>, <<>>, "start"), line, s)
                         /\ AtLineEnd(s, rows, Cells(b, c))
<1> DEFINE X == Export!Chars  x == Export!CsvEscape(b)  y == Export!CsvEscape(c)
           comma == <<Export!Comma>>  L == LetterCell  s0 == State(rows, <<>>, <<>>, "start")
           line == Export!JoinedBy(<<Export!Comma>>,
                                   [i \in 1 .. 4 |-> Export!CsvEscape(Cells(b, c)[i])])
<1>1. /\ x \in Seq(X) /\ y \in Seq(X)
      /\ line = ((L \o (comma \o x)) \o (comma \o y)) \o (comma \o L)
      /\ line \in Seq(X)
  BY LineText
<1>2. comma \in Seq(X) /\ L \in Seq(X)
  BY DEF Export!Chars, LetterCell
<1>3. \E s : Reads(s0, L, s) /\ HasRead(s, rows, <<>>, L)
  <2> DEFINE q1 == State(rows, <<>>, L, "text")
  <2>1. Export!ReadChar(s0, Export!Letter) = q1
    BY LetterIsRead
  <2>2. Reads(s0, L, q1)
    <3>1. Reads(s0, <<Export!Letter>>, Export!ReadChar(s0, Export!Letter))
      BY ReadsOne
    <3> HIDE DEF s0, q1
    <3> QED BY <2>1, <3>1 DEF LetterCell
  <2>3. HasRead(q1, rows, <<>>, L)
    BY DEF HasRead
  <2> HIDE DEF q1, s0
  <2> QED BY <2>2, <2>3
<1> HIDE DEF x, y, comma, L, s0, line, X
<1>4. PICK q1 : Reads(s0, L, q1) /\ HasRead(q1, rows, <<>>, L)
  BY <1>3
<1> DEFINE cx == comma \o x  cy == comma \o y  cl == comma \o L
           r1 == Append(<<>>, L)  r2 == Append(r1, b)  r3 == Append(r2, c)
<1>5. cx \in Seq(X) /\ \E s : Reads(q1, cx, s) /\ HasRead(s, rows, r1, b)
  BY <1>4, NextCellIsRead DEF comma, x, X
<1>6. PICK q2 : Reads(q1, cx, q2) /\ HasRead(q2, rows, r1, b)
  BY <1>5
<1>7. cy \in Seq(X) /\ \E s : Reads(q2, cy, s) /\ HasRead(s, rows, r2, c)
  <2> HIDE DEF r1
  <2> QED BY <1>6, NextCellIsRead DEF comma, y, X
<1>8. PICK q3 : Reads(q2, cy, q3) /\ HasRead(q3, rows, r2, c)
  BY <1>7
<1> DEFINE q4 == State(rows, r3, <<>>, "start")  q5 == State(rows, r3, L, "text")
<1>9. Reads(q3, comma, q4)
  <2> HIDE DEF r2
  <2> QED BY <1>8, CommaEndsCell DEF comma
<1>10. Reads(q4, L, q5)
  <2>1. Export!ReadChar(q4, Export!Letter) = q5
    <3> HIDE DEF r3
    <3> QED BY LetterIsRead DEF L
  <2> HIDE DEF q4, q5
  <2>2. Reads(q4, <<Export!Letter>>, Export!ReadChar(q4, Export!Letter))
    BY ReadsOne
  <2> QED BY <2>1, <2>2 DEF LetterCell, L
<1> HIDE DEF q4
<1>11. cl \in Seq(X) /\ Reads(q3, cl, q5)
  <2>1. cl \in Seq(X)
    BY <1>2
  <2> HIDE DEF q5
  <2> QED BY <1>2, <1>9, <1>10, <2>1, ReadsBoth
<1>12. AtLineEnd(q5, rows, Cells(b, c))
  <2>1. Append(r3, L) = Cells(b, c)
    <3>1. L \in Seq(X) /\ b \in Seq(X) /\ c \in Seq(X)
      BY <1>2 DEF X
    <3>2. r1 = <<L>> /\ Append(<<L>>, b) = <<L, b>>
      BY <3>1, Single, Pair
    <3>3. Append(<<L, b>>, c) = <<L, b, c>> /\ Append(<<L, b, c>>, L) = <<L, b, c, L>>
      <4> HIDE DEF X, L
      <4>1. Append(<<L, b>>, c) = <<L, b, c>>
        BY <3>1, Triple
      <4>2. Append(<<L, b, c>>, L) = <<L, b, c, L>>
        BY <3>1, Quadruple
      <4> QED BY <4>1, <4>2
    <3>4. r3 = <<L, b, c>>
      BY <3>2, <3>3
    <3> HIDE DEF r3
    <3> QED BY <3>3, <3>4 DEF Cells, L
  <2> HIDE DEF r3
  <2> QED BY <2>1 DEF AtLineEnd, L
<1> HIDE DEF q5, cx, cy, cl
<1>13. Reads(s0, L \o cx, q2) /\ L \o cx \in Seq(X)
  BY <1>2, <1>4, <1>5, <1>6, ReadsBoth, ConcatProperties
<1>14. Reads(s0, (L \o cx) \o cy, q3) /\ (L \o cx) \o cy \in Seq(X)
  BY <1>7, <1>8, <1>13, ReadsBoth, ConcatProperties
<1>15. Reads(s0, ((L \o cx) \o cy) \o cl, q5) /\ ((L \o cx) \o cy) \o cl \in Seq(X)
  BY <1>11, <1>14, ReadsBoth, ConcatProperties
<1>16. line = ((L \o cx) \o cy) \o cl
  BY <1>1 DEF cx, cy, cl
<1> QED BY <1>1, <1>12, <1>15, <1>16 DEF line, X, s0
-----------------------------------------------------------------------------
(* The lines, and what they should be read as: both are the header's and   *)
(* one for each line of the table.                                         *)

Mapped(h, f, t) == <<h>> \o [k \in DOMAIN t |-> f[t[k]]]

LEMMA MappedAppend ==
    ASSUME NEW X, NEW Y, NEW h \in Y, NEW f \in [X -> Y], NEW t \in Seq(X), NEW x \in X
    PROVE  /\ Mapped(h, f, t) \in Seq(Y) /\ Mapped(h, f, t) # <<>>
           /\ Mapped(h, f, <<>>) = <<h>>
           /\ Mapped(h, f, Append(t, x)) = Append(Mapped(h, f, t), f[x])
<1> DEFINE m(u) == [k \in DOMAIN u |-> f[u[k]]]  n == Len(t)  tx == Append(t, x)
           a == m(t)  b == m(tx)  e == f[x]  hs == <<h>>
<1>1. /\ n \in Nat /\ DOMAIN t = 1 .. n /\ \A i \in 1 .. n : t[i] \in X
      /\ tx \in Seq(X) /\ Len(tx) = n + 1 /\ tx[n + 1] = x /\ DOMAIN tx = 1 .. n + 1
      /\ \A i \in 1 .. n : tx[i] = t[i]
      /\ e \in Y /\ hs \in Seq(Y) /\ Len(hs) = 1
  OBVIOUS
<1>2. a \in Seq(Y) /\ Len(a) = n
  <2>1. a \in [1 .. n -> Y]
    BY <1>1
  <2> QED BY <1>1, <2>1
<1>3. b \in Seq(Y) /\ Len(b) = n + 1
  <2>1. \A i \in 1 .. n + 1 : tx[i] \in X
    BY <1>1, ElementOfSeq
  <2>2. b \in [1 .. n + 1 -> Y]
    BY <1>1, <2>1
  <2> QED BY <1>1, <2>2
<1>4. b[n + 1] = e /\ \A i \in 1 .. n : b[i] = a[i]
  BY <1>1
<1>5. m(<<>>) = <<>> /\ hs \o <<>> = hs
  BY <1>1, ConcatEmptySeq
<1> HIDE DEF a, b, e, n, tx, hs
<1>6. b = Append(a, e)
  BY <1>1, <1>2, <1>3, <1>4, IsAppend
<1>7. hs \o Append(a, e) = Append(hs \o a, e)
  <2>1. Append(a, e) = a \o <<e>> /\ hs \o a \in Seq(Y) /\ <<e>> \in Seq(Y)
    <3>1. hs \in Seq(Y) /\ a \in Seq(Y) /\ e \in Y /\ <<e>> \in Seq(Y)
      BY <1>1, <1>2
    <3>2. Append(a, e) = a \o <<e>>
      BY <3>1, AppendIsConcat
    <3>3. hs \o a \in Seq(Y)
      BY <3>1
    <3> QED BY <3>1, <3>2, <3>3
  <2>2. Append(hs \o a, e) = (hs \o a) \o <<e>>
    <3>1. hs \o a \in Seq(Y) /\ e \in Y
      BY <1>1, <2>1
    <3> QED BY <3>1, AppendIsConcat
  <2>3. (hs \o a) \o <<e>> = hs \o (a \o <<e>>)
    <3> DEFINE es == <<e>>
    <3>1. hs \in Seq(Y) /\ a \in Seq(Y) /\ es \in Seq(Y)
      BY <1>1, <1>2, <2>1
    <3> HIDE DEF es
    <3>2. (hs \o a) \o es = hs \o (a \o es)
      BY <3>1, ConcatAssociative
    <3> QED BY <3>2 DEF es
  <2> QED BY <2>1, <2>2, <2>3
<1>8. hs \o a \in Seq(Y) /\ hs \o a # <<>>
  <2>1. hs \o a \in Seq(Y) /\ Len(hs \o a) = 1 + n /\ n \in Nat
    <3>1. hs \in Seq(Y) /\ a \in Seq(Y) /\ Len(hs) = 1 /\ Len(a) = n /\ n \in Nat
      BY <1>1, <1>2
    <3>2. hs \o a \in Seq(Y) /\ Len(hs \o a) = Len(hs) + Len(a)
      BY <3>1, ConcatProperties
    <3> QED BY <3>1, <3>2
  <2> QED BY <2>1
<1>9. Mapped(h, f, t) = hs \o a /\ Mapped(h, f, tx) = hs \o b /\ Mapped(h, f, <<>>) = hs \o m(<<>>)
  BY DEF Mapped, hs, a, b
<1> HIDE DEF m
<1> QED BY <1>5, <1>6, <1>7, <1>8, <1>9 DEF e, tx, hs

WrittenLines(t) == <<Export!Header>> \o [k \in DOMAIN t |-> Export!ExportedLine(t[k])]
TableRows(t) == <<Cells(LetterCell, LetterCell)>> \o [k \in DOMAIN t |-> Export!Columns(t[k])]

\* Lines in which no carriage return stands alone.
PortableLine == {l \in Line : Export!Portable(l.customer) /\ Export!Portable(l.product)}

\* The header is written as a line of letters would be, and every line has four cells.
LEMMA LinesHaveCells ==
    /\ Export!Header = Export!JoinedBy(<<Export!Comma>>,
                           [i \in 1 .. 4 |-> Export!CsvEscape(Cells(LetterCell, LetterCell)[i])])
    /\ [i \in 1 .. 4 |-> <<Export!Letter>>] = Cells(LetterCell, LetterCell)
    /\ \A line \in Line :
          /\ line.customer \in Seq(Export!Chars) /\ line.product \in Seq(Export!Chars)
          /\ Export!Columns(line) = Cells(line.customer, line.product)
          /\ Export!ExportedLine(line) = Export!JoinedBy(<<Export!Comma>>,
                 [i \in 1 .. 4 |-> Export!CsvEscape(Cells(line.customer, line.product)[i])])
<1> DEFINE LL == Cells(LetterCell, LetterCell)
<1>1. \A i \in 1 .. 4 : LL[i] = LetterCell
  BY DEF Cells
<1>2. LL = [i \in 1 .. 4 |-> LetterCell]
  BY DEF Cells
<1> HIDE DEF LL
<1>3. [i \in 1 .. 4 |-> Export!CsvEscape(LL[i])] = [i \in 1 .. 4 |-> LetterCell]
  BY <1>1, LetterStays
<1>4. Export!Header = Export!JoinedBy(<<Export!Comma>>, [i \in 1 .. 4 |-> Export!CsvEscape(LL[i])])
  BY <1>3 DEF Export!Header, LetterCell
<1>5. ASSUME NEW line \in Line
      PROVE  /\ line.customer \in Seq(Export!Chars) /\ line.product \in Seq(Export!Chars)
             /\ Export!Columns(line) = Cells(line.customer, line.product)
  BY DEF Line, Export!Columns, Cells, LetterCell
<1>6. ASSUME NEW line \in Line
      PROVE  Export!ExportedLine(line) = Export!JoinedBy(<<Export!Comma>>,
                 [i \in 1 .. 4 |-> Export!CsvEscape(Cells(line.customer, line.product)[i])])
  BY <1>5 DEF Export!ExportedLine
<1> QED BY <1>2, <1>4, <1>5, <1>6 DEF LL, LetterCell

LEMMA LinesAppend ==
    ASSUME NEW t \in Seq(Line), NEW line \in Line
    PROVE  /\ WrittenLines(t) \in Seq(Seq(Export!Chars)) /\ WrittenLines(t) # <<>>
           /\ WrittenLines(<<>>) = <<Export!Header>>
           /\ WrittenLines(Append(t, line)) = Append(WrittenLines(t), Export!ExportedLine(line))
           /\ TableRows(<<>>) = <<Cells(LetterCell, LetterCell)>>
           /\ TableRows(Append(t, line)) = Append(TableRows(t), Export!Columns(line))
<1> DEFINE X == Seq(Export!Chars)
           f == [l \in Line |-> Export!ExportedLine(l)]  g == [l \in Line |-> Export!Columns(l)]
           h == Export!Header  k == Cells(LetterCell, LetterCell)
           tl == Append(t, line)
<1>1. LetterCell \in X
  BY DEF LetterCell, Export!Chars
<1>2. h \in X /\ \A l \in Line : Export!ExportedLine(l) \in X
  <2> DEFINE Written(b, c) == Export!JoinedBy(<<Export!Comma>>,
                                  [i \in 1 .. 4 |-> Export!CsvEscape(Cells(b, c)[i])])
  <2>1. ASSUME NEW b \in X, NEW c \in X PROVE Written(b, c) \in X
    BY LineText
  <2>2. h = Written(LetterCell, LetterCell)
    BY LinesHaveCells
  <2>3. \A l \in Line : /\ l.customer \in X /\ l.product \in X
                         /\ Export!ExportedLine(l) = Written(l.customer, l.product)
    BY LinesHaveCells
  <2> HIDE DEF h, Written, X
  <2> QED BY <1>1, <2>1, <2>2, <2>3
<1>3. k \in Seq(X) /\ \A l \in Line : Export!Columns(l) \in Seq(X)
  <2>1. \A b \in X, c \in X : Cells(b, c) \in Seq(X)
    BY <1>1 DEF Cells
  <2> QED BY <1>1, <2>1, LinesHaveCells
<1>4. f \in [Line -> X] /\ g \in [Line -> Seq(X)]
  BY <1>2, <1>3
<1>5. ASSUME NEW u \in Seq(Line)
      PROVE  WrittenLines(u) = Mapped(h, f, u) /\ TableRows(u) = Mapped(k, g, u)
  <2>1. \A i \in DOMAIN u : u[i] \in Line
    OBVIOUS
  <2>2. /\ [i \in DOMAIN u |-> Export!ExportedLine(u[i])] = [i \in DOMAIN u |-> f[u[i]]]
        /\ [i \in DOMAIN u |-> Export!Columns(u[i])] = [i \in DOMAIN u |-> g[u[i]]]
    BY <2>1
  <2> HIDE DEF f, g
  <2> QED BY <2>2 DEF WrittenLines, TableRows, Mapped
<1>6. /\ f[line] = Export!ExportedLine(line) /\ g[line] = Export!Columns(line)
      /\ tl \in Seq(Line) /\ <<>> \in Seq(Line)
  OBVIOUS
<1> HIDE DEF f, g, h, k, X
<1>7. /\ Mapped(h, f, t) \in Seq(X) /\ Mapped(h, f, t) # <<>> /\ Mapped(h, f, <<>>) = <<h>>
      /\ Mapped(h, f, tl) = Append(Mapped(h, f, t), f[line])
  <2>1. h \in X /\ f \in [Line -> X]
    BY <1>2, <1>4
  <2> QED BY <2>1, MappedAppend
<1>8. /\ Mapped(k, g, <<>>) = <<k>> /\ Mapped(k, g, tl) = Append(Mapped(k, g, t), g[line])
  <2>1. k \in Seq(X) /\ g \in [Line -> Seq(X)]
    BY <1>3, <1>4
  <2> DEFINE Rows == Seq(X)
  <2>2. k \in Rows /\ g \in [Line -> Rows]
    BY <2>1
  <2> HIDE DEF Rows
  <2> QED BY <2>2, MappedAppend
<1> HIDE DEF tl
<1>9. /\ WrittenLines(t) = Mapped(h, f, t) /\ WrittenLines(tl) = Mapped(h, f, tl)
      /\ WrittenLines(<<>>) = Mapped(h, f, <<>>)
      /\ TableRows(t) = Mapped(k, g, t) /\ TableRows(tl) = Mapped(k, g, tl)
      /\ TableRows(<<>>) = Mapped(k, g, <<>>)
  BY <1>5, <1>6
<1> QED BY <1>6, <1>7, <1>8, <1>9 DEF X, h, k, tl

-----------------------------------------------------------------------------
\* The end of a line gives its cells to the rows.
LEMMA LineEndIsRead ==
    ASSUME NEW s, NEW rows, NEW line, AtLineEnd(s, rows, line)
    PROVE  /\ <<Export!CR, Export!LF>> \in Seq(Export!Chars)
           /\ Reads(s, <<Export!CR, Export!LF>>, State(Append(rows, line), <<>>, <<>>, "start"))
           /\ Export!EndLine(s).rows = Append(rows, line)
<1> DEFINE X == Export!Chars  cr == <<Export!CR>>  lf == <<Export!LF>>  L == LetterCell
           m == State(Append(rows, line), <<>>, <<>>, "start")
<1>1. PICK row : s = State(rows, row, L, "text") /\ Append(row, L) = line
  BY DEF AtLineEnd
<1> DEFINE r == State(Append(rows, line), <<>>, <<>>, "return")
<1>2. cr \in Seq(X) /\ lf \in Seq(X) /\ <<Export!CR, Export!LF>> \in Seq(X)
  BY DEF Export!Chars
<1>3. cr \o lf = <<Export!CR, Export!LF>>
  <2>1. Export!CR \in X /\ Export!LF \in X
    BY DEF Export!Chars
  <2> HIDE DEF X
  <2> QED BY <2>1, Pair
<1>4. Export!ReadChar(s, Export!CR) = r
  <2>1. Export!ReadChar(State(rows, row, L, "text"), Export!CR)
          = State(Append(rows, Append(row, L)), <<>>, <<>>, "return")
    BY PlainSteps
  <2> QED BY <1>1, <2>1
<1>5. Export!ReadChar(r, Export!LF) = m
  <2> DEFINE none == <<>>  more == Append(rows, line)
  <2> HIDE DEF none, more
  <2>1. Export!ReadChar(State(more, none, none, "return"), Export!LF) = State(more, none, none, "start")
    BY PlainSteps
  <2> QED BY <2>1 DEF none, more
<1>6. Export!EndLine(s).rows = Append(rows, line)
  <2>1. Export!EndLine(State(rows, row, L, "text")).rows = Append(rows, Append(row, L))
    <3> HIDE DEF L
    <3> QED BY DEF State, Export!EndLine, Export!EndField
  <2> QED BY <1>1, <2>1
<1> HIDE DEF r, m, X
<1>7. Reads(s, cr, r) /\ Reads(r, lf, m)
  <2>1. Reads(s, cr, Export!ReadChar(s, Export!CR)) /\ Reads(r, lf, Export!ReadChar(r, Export!LF))
    BY ReadsOne
  <2> QED BY <1>4, <1>5, <2>1
<1> HIDE DEF cr, lf
<1>8. Reads(s, cr \o lf, m)
  BY <1>2, <1>7, ReadsBoth
<1> QED BY <1>2, <1>3, <1>6, <1>8 DEF m, X

LEMMA LinesAreRead ==
    ASSUME NEW t \in Seq(PortableLine)
    PROVE  LET text == Export!JoinedBy(<<Export!CR, Export!LF>>, WrittenLines(t))
           IN  /\ text \in Seq(Export!Chars)
               /\ \E s, rows, line : /\ Reads(Start, text, s) /\ AtLineEnd(s, rows, line)
                                     /\ Append(rows, line) = TableRows(t)
<1> DEFINE X == Export!Chars  end == <<Export!CR, Export!LF>>
           J(u) == Export!JoinedBy(end, WrittenLines(u))
           Done(u, s, rows, line) == /\ Reads(Start, J(u), s) /\ AtLineEnd(s, rows, line)
                                     /\ Append(rows, line) = TableRows(u)
           P == {u \in Seq(PortableLine) : J(u) \in Seq(X) /\ \E s, rows, line : Done(u, s, rows, line)}
           k == Cells(LetterCell, LetterCell)
<1>1. end \in Seq(X) /\ LetterCell \in Seq(X)
  BY DEF Export!Chars, LetterCell
<1>2. Start = State(<<>>, <<>>, <<>>, "start")
  BY DEF Start, State
<1>3. <<>> \in P
  <2>1. PICK l \in Line : TRUE
    <3>1. [customer |-> LetterCell, product |-> LetterCell] \in Line
      BY <1>1 DEF Line
    <3> QED BY <3>1
  <2>2. <<>> \in Seq(Line) /\ <<>> \in Seq(PortableLine)
    OBVIOUS
  <2>3. WrittenLines(<<>>) = <<Export!Header>> /\ TableRows(<<>>) = <<k>>
    BY <2>1, <2>2, LinesAppend
  <2>4. Export!Header \in Seq(X) /\ \E s : Reads(Start, Export!Header, s) /\ AtLineEnd(s, <<>>, k)
    <3>1. Export!Portable(LetterCell)
      BY LetterIsPortable
    <3> QED BY <1>1, <1>2, <3>1, LinesHaveCells, LineIsRead
  <2>5. Export!JoinedBy(end, <<Export!Header>>) = Export!Header
    BY <1>1, <2>4, JoinOne
  <2>6. Append(<<>>, k) = <<k>>
    OBVIOUS
  <2>7. PICK s : Reads(Start, Export!Header, s) /\ AtLineEnd(s, <<>>, k)
    BY <2>4
  <2> DEFINE none == <<>>
  <2>8. J(<<>>) = Export!Header
    BY <2>3, <2>5
  <2> HIDE DEF J, k
  <2>9. Done(<<>>, s, none, k)
    BY <2>3, <2>6, <2>7, <2>8
  <2> HIDE DEF Done, none, X
  <2> QED BY <2>2, <2>4, <2>8, <2>9
<1>4. ASSUME NEW u \in P, NEW l \in PortableLine PROVE Append(u, l) \in P
  <2> DEFINE ul == Append(u, l)  text == Export!ExportedLine(l)  cells == Export!Columns(l)
  <2>1. /\ u \in Seq(PortableLine) /\ ul \in Seq(PortableLine) /\ J(u) \in Seq(X)
        /\ u \in Seq(Line) /\ l \in Line
    <3>1. u \in Seq(PortableLine) /\ ul \in Seq(PortableLine) /\ J(u) \in Seq(X)
      OBVIOUS
    <3>2. PortableLine \subseteq Line
      BY DEF PortableLine
    <3> HIDE DEF P, J, ul, X
    <3> QED BY <3>1, <3>2
  <2>2. PICK s, rows, line : Done(u, s, rows, line)
    <3> HIDE DEF Done
    <3> QED OBVIOUS
  <2> DEFINE next == Append(rows, line)  m == State(next, <<>>, <<>>, "start")
  <2>3. Reads(s, end, m)
    BY <2>2, LineEndIsRead
  <2>4. text \in Seq(X) /\ \E r : Reads(m, text, r) /\ AtLineEnd(r, next, cells)
    <3> DEFINE b == l.customer  c == l.product
               written == Export!JoinedBy(<<Export!Comma>>,
                              [i \in 1 .. 4 |-> Export!CsvEscape(Cells(b, c)[i])])
    <3>1. /\ b \in Seq(Export!Chars) /\ c \in Seq(Export!Chars)
          /\ cells = Cells(b, c) /\ text = written
      BY <2>1, LinesHaveCells
    <3>0. Export!Portable(b) /\ Export!Portable(c)
      BY DEF PortableLine
    <3> HIDE DEF next, b, c, text, cells
    <3>2. written \in Seq(X) /\ \E r : Reads(m, written, r) /\ AtLineEnd(r, next, Cells(b, c))
      BY <3>0, <3>1, LineIsRead
    <3> QED BY <3>1, <3>2
  <2>5. PICK r : Reads(m, text, r) /\ AtLineEnd(r, next, cells)
    BY <2>4
  <2>6. /\ WrittenLines(u) \in Seq(Seq(X)) /\ WrittenLines(u) # <<>>
        /\ WrittenLines(ul) = Append(WrittenLines(u), text)
        /\ TableRows(ul) = Append(TableRows(u), cells)
    BY <2>1, LinesAppend
  <2> HIDE DEF end, m, X, text, ul
  <2>7. J(ul) = J(u) \o (end \o text)
    <3> DEFINE w == WrittenLines(u)
    <3>1. end \in Seq(X) /\ w \in Seq(Seq(X)) /\ w # <<>> /\ text \in Seq(X)
      BY <1>1, <2>4, <2>6
    <3> HIDE DEF w
    <3>2. Export!JoinedBy(end, Append(w, text)) = Export!JoinedBy(end, w) \o (end \o text)
      BY <3>1, JoinAppend
    <3> QED BY <2>6, <3>2 DEF w
  <2>8. Reads(s, end \o text, r) /\ end \o text \in Seq(X)
    BY <1>1, <2>3, <2>4, <2>5, ReadsBoth, ConcatProperties
  <2>9. Reads(Start, J(u), s) /\ AtLineEnd(s, rows, line) /\ next = TableRows(u)
    BY <2>2
  <2> HIDE DEF J, next
  <2>10. Reads(Start, J(u) \o (end \o text), r) /\ J(u) \o (end \o text) \in Seq(X)
    BY <2>1, <2>8, <2>9, ReadsBoth, ConcatProperties
  <2>11. Done(ul, r, next, cells)
    BY <2>5, <2>6, <2>7, <2>9, <2>10
  <2> HIDE DEF Done
  <2>12. ul \in P
    BY <2>1, <2>7, <2>10, <2>11
  <2> QED BY <2>12 DEF ul
<1>5. P \in SUBSET Seq(PortableLine)
  OBVIOUS
<1> HIDE DEF P, J, end, X
<1>6. P = Seq(PortableLine)
  BY <1>3, <1>4, <1>5, SeqInduction
<1> QED BY <1>6 DEF P, J, end, X

\* A spreadsheet reads from the export the cells that went into it, whatever
\* commas, quotes and line feeds the names hold, as long as no carriage return
\* stands in a name without one of them: that is not quoted
\* (analytics.service.ts:8-11, 130-150).
THEOREM ExportIsReadBack == Spec => []CsvRoundTrip
<1>1. (part = "export" => Export!TypeOK) => CsvRoundTrip
  <2> SUFFICES ASSUME Export!TypeOK,
                      \A k \in DOMAIN s1 : /\ Export!Portable(s1[k].customer)
                                           /\ Export!Portable(s1[k].product)
               PROVE  Export!ReadCsv(Export!ExportCsv)
                        = <<[i \in 1 .. 4 |-> <<Export!Letter>>]>>
                            \o [k \in DOMAIN s1 |-> Export!Columns(s1[k])]
    BY DEF CsvRoundTrip, Export!CsvRoundTrip
  <2> DEFINE text == Export!JoinedBy(<<Export!CR, Export!LF>>, WrittenLines(s1))
  <2>1. s1 \in Seq(PortableLine)
    <3>1. s1 \in Seq(Line)
      BY DEF Export!TypeOK, Line
    <3>2. DOMAIN s1 = 1 .. Len(s1) /\ Len(s1) \in Nat /\ \A k \in 1 .. Len(s1) : s1[k] \in Line
      BY <3>1, ElementOfSeq
    <3>3. \A k \in 1 .. Len(s1) : s1[k] \in PortableLine
      BY <3>2 DEF PortableLine
    <3>4. s1 \in [1 .. Len(s1) -> PortableLine]
      BY <3>1, <3>2, <3>3
    <3> QED BY <3>2, <3>4
  <2>2. /\ text \in Seq(Export!Chars)
        /\ \E s, rows, line : /\ Reads(Start, text, s) /\ AtLineEnd(s, rows, line)
                              /\ Append(rows, line) = TableRows(s1)
    BY <2>1, LinesAreRead
  <2>3. PICK s, rows, line : /\ Reads(Start, text, s) /\ AtLineEnd(s, rows, line)
                             /\ Append(rows, line) = TableRows(s1)
    BY <2>2
  <2>4. Export!EndLine(s).rows = TableRows(s1)
    BY <2>3, LineEndIsRead
  <2>5. Export!ExportCsv = <<Export!BOM>> \o text
    BY DEF Export!ExportCsv, WrittenLines
  <2> HIDE DEF text
  <2>6. text \in Seq(Letters)
    <3>1. Export!Chars \subseteq Letters
      BY DEF Letters
    <3> QED BY <2>2, <3>1
  <2>7. Export!ReadCsv(<<Export!BOM>> \o text) = TableRows(s1)
    BY <2>3, <2>4, <2>6, ReadCsvEnds
  <2> QED BY <2>5, <2>7, LinesHaveCells DEF Export!CsvRoundTrip, TableRows
<1> QED BY <1>1, ExportTypes, PTL
=============================================================================
