-------------------------- MODULE AdminPages_proofs --------------------------
(***************************************************************************)
(* The pages of administrators, for any number of orders, products and     *)
(* categories: an order is cancelled once, a save goes where it was meant, *)
(* and a table that waits for nothing shows the database.                  *)
(***************************************************************************)
EXTENDS Shop, TLAPS

-----------------------------------------------------------------------------
(* AdminOrdersPage: an administrator who stays overlaps no status changes. *)

LEMMA StatusStarts ==
    ASSUME Init, part = "status" PROVE Status!Init
BY DEF Init

LEMMA StatusSteps ==
    ASSUME [Next]_slots, part = "status"
    PROVE  part' = "status" /\ [Status!Next]_Status!vars
BY DEF Next, slots, Status!vars, Status!pageVars

\* The page opens on new orders with nothing in flight.
LEMMA PageInit ==
    ASSUME Status!Init PROVE Status!PageInv
<1> USE DEF Status!Init, Status!Unlisted, Status!Nothing, Status!Idle
<1>1. s5 \in [OrderIds -> Status!ORDER_STATUSES \cup {"none"}]
  BY DEF Status!Listed, Status!ORDER_STATUSES
<1>2. Status!TypeOK
  <2>1. s1 \in [OrderIds -> Status!ORDER_STATUSES] /\ s2 \in [OrderIds -> Nat]
    BY DEF Status!ORDER_STATUSES
  <2>2. s7 \in [Requests -> {Status!Idle}]
    OBVIOUS
  <2>3. s4 = Status!All /\ s6 = Status!Nothing /\ s8 = Status!Unlisted
    OBVIOUS
  <2>4. s9 = 0 /\ MaxFailures \in Nat
    BY BoundsAssumption
  <2>5. s9 \in 0 .. MaxFailures
    BY <2>4
  <2>6. s3 \in BOOLEAN /\ s10 \in BOOLEAN
    BY Zenon
  <2> HIDE DEF Status!Init, Status!Nothing, Status!Idle
  <2> QED BY <1>1, <2>1, <2>2, <2>3, <2>5, <2>6, Zenon DEF Status!TypeOK
<1>3. Status!OneChange
  BY DEF Status!OneChange, Status!InFlight
<1>4. Status!CancelledOnce
  BY DEF Status!CancelledOnce
<1> QED BY <1>2, <1>3, <1>4 DEF Status!PageInv

\* A table that is fetched shows statuses of the database.
LEMMA ListedType ==
    ASSUME NEW f, Status!TypeOK
    PROVE  Status!Listed(f) \in [OrderIds -> Status!ORDER_STATUSES \cup {Status!Unlisted}]
BY DEF Status!Listed, Status!TypeOK

\* What the administrator does on the page: only ChangeStatus sends anything.
LEMMA PageActions ==
    ASSUME Status!PageInv,
           \/ Status!Close \/ Status!Leave \/ Status!Visit
           \/ \E f \in Choices \cup {Status!All} : Status!SetFilter(f)
           \/ \E o \in OrderIds : Status!Select(o)
    PROVE  Status!PageInv'
<1> USE NoneAssumption, BoundsAssumption
        DEF Status!PageInv, Status!TypeOK, Status!OneChange, Status!CancelledOnce,
            Status!InFlight, Status!Nothing
<1>1. CASE Status!Close
  BY <1>1 DEF Status!Close, Status!Unlisted
<1>2. CASE Status!Leave
  <2>1. UNCHANGED <<s1, s2, s7>> /\ s3' = FALSE /\ s4' = Status!All
        /\ s5' = [o \in OrderIds |-> Status!Unlisted] /\ s6' = Status!Nothing
        /\ s8' = Status!Unlisted
    BY <1>2 DEF Status!Leave
  <2>2. \/ s8 = Status!Unlisted /\ UNCHANGED <<s9, s10>>
        \/ s9' \in 0 .. MaxFailures /\ s10' = TRUE
    BY <1>2 DEF Status!Leave
  <2>3. Status!TypeOK'
    BY <2>1, <2>2
  <2>4. Status!CancelledOnce'
    BY <2>1, <2>2
  <2>5. Status!OneChange'
    BY <2>1, <2>2
  <2> QED BY <2>3, <2>4, <2>5
<1>3. CASE Status!Visit
  BY <1>3, ListedType DEF Status!Visit, Status!Controls
<1>4. ASSUME NEW f \in Choices \cup {Status!All}, Status!SetFilter(f)
      PROVE  Status!PageInv'
  BY <1>4, ListedType, ChoicesAssumption DEF Status!SetFilter, Status!ORDER_STATUSES
<1>5. ASSUME NEW o \in OrderIds, Status!Select(o) PROVE Status!PageInv'
  BY <1>5 DEF Status!Select, Status!Controls
<1> QED BY <1>1, <1>2, <1>3, <1>4, <1>5

\* A change is sent when the page waits for nothing, so when nothing is in
\* flight, as long as none was left alone.
LEMMA ChangeStatusStep ==
    ASSUME Status!PageInv, NEW r \in Requests, NEW s \in Choices, Status!ChangeStatus(r, s)
    PROVE  Status!PageInv'
<1> USE DEF Status!ChangeStatus, Status!PageInv, Status!InFlight
<1>1. s \in Status!ORDER_STATUSES
  BY ChoicesAssumption DEF Status!ORDER_STATUSES
<1>2. Status!TypeOK'
  BY <1>1, NoneAssumption DEF Status!TypeOK, Status!Controls, Status!Nothing, Status!Idle,
                              Status!Unlisted
<1>3. ASSUME ~s10 PROVE Status!OneChange'
  <2>1. \A q \in Requests : ~Status!InFlight(q)
    BY <1>3, NoneAssumption DEF Status!OneChange, Status!Controls, Status!Unlisted
  <2> QED BY <2>1 DEF Status!OneChange, Status!TypeOK, Status!Controls
<1>4. Status!CancelledOnce'
  BY DEF Status!CancelledOnce
<1> QED BY <1>2, <1>3, <1>4 DEF Status!OneChange

\* The check of a change, and the worker, leave no change overlapping another.
LEMMA StatusReadStep ==
    ASSUME Status!PageInv, NEW r \in Requests, Status!Read(r)
    PROVE  Status!PageInv'
BY DEF Status!Read, Status!PageInv, Status!InFlight, Status!TypeOK, Status!OneChange,
       Status!CancelledOnce, Status!pageVars, Status!Idle

LEMMA AutoProcessStep ==
    ASSUME Status!PageInv, NEW o \in OrderIds, Status!AutoProcess(o)
    PROVE  Status!PageInv'
BY DEF Status!AutoProcess, Status!PageInv, Status!InFlight, Status!TypeOK, Status!OneChange,
       Status!CancelledOnce, Status!pageVars, Status!ORDER_STATUSES, Status!FINAL_STATUSES

\* The write: the status that the check saw is not final still, so the units of
\* an order that is cancelled now are with the customer.
LEMMA WriteStep ==
    ASSUME Status!PageInv, NEW r \in Requests, Status!Write(r)
    PROVE  Status!PageInv'
<1> USE DEF Status!Write, Status!PageInv, Status!InFlight, Status!pageVars
<1> DEFINE status == s1  restocked == s2  request == s7  left == s10
           Sent == [phase : {"sent", "refused", "read", "alone", "written"}, order : OrderIds,
                    to : Status!ORDER_STATUSES]
           o == request[r].order
<1>1. o \in OrderIds /\ request[r].to \in Status!ORDER_STATUSES /\ request[r] \in Sent
  BY DEF Status!TypeOK, Status!Idle
<1>2. /\ \A q \in Requests \ {r} : request'[q] = request[q]
      /\ \/ request[r].phase = "alone" /\ request'[r] = Status!Idle
         \/ request[r].phase = "read" /\ request'[r] = [request[r] EXCEPT !.phase = "written"]
      /\ request' \in [Requests -> {Status!Idle} \cup Sent]
  <2> DEFINE next == IF request[r].phase = "alone" THEN Status!Idle
                     ELSE [request[r] EXCEPT !.phase = "written"]
  <2>1. next \in {Status!Idle} \cup Sent
    BY <1>1
  <2>2. /\ request' = [request EXCEPT ![r] = next]
        /\ request \in [Requests -> {Status!Idle} \cup Sent]
        /\ request[r].phase \in {"read", "alone"}
    BY DEF Status!TypeOK
  <2>3. \/ request[r].phase = "alone" /\ next = Status!Idle
        \/ request[r].phase = "read" /\ next = [request[r] EXCEPT !.phase = "written"]
    BY <2>2
  <2> HIDE DEF next, Sent
  <2> QED BY <2>1, <2>2, <2>3
<1>3. Status!TypeOK'
  <2>1. status' \in [OrderIds -> Status!ORDER_STATUSES]
    BY <1>1 DEF Status!TypeOK
  <2>2. restocked' \in [OrderIds -> Nat]
    BY <1>1 DEF Status!TypeOK
  <2>3. s8 # Status!Unlisted => s3 /\ request'[s8].phase \notin {"idle", "alone"}
    <3> SUFFICES ASSUME s8 # Status!Unlisted PROVE s3 /\ request'[s8].phase \notin {"idle", "alone"}
      OBVIOUS
    <3>1. s8 \in Requests /\ request[s8].phase \notin {"idle", "alone"} /\ s3
      BY DEF Status!TypeOK
    <3>2. CASE s8 = r
      BY <1>1, <1>2, <3>1, <3>2
    <3>3. CASE s8 # r
      BY <1>2, <3>1, <3>3
    <3> QED BY <3>2, <3>3
  <2> QED BY <1>2, <2>1, <2>2, <2>3 DEF Status!TypeOK
<1>4. ASSUME ~left PROVE Status!OneChange' /\ Status!CancelledOnce'
  <2>1. request[r].phase = "read" /\ \A q \in Requests : Status!InFlight(q) => q = r /\ s8 = r
    BY <1>1, <1>4 DEF Status!OneChange
  <2>2. status[o] \notin Status!FINAL_STATUSES
    BY <1>4, <2>1 DEF Status!OneChange
  <2>3. \A q \in Requests :
           /\ request'[q].phase # "read" /\ request'[q].phase # "alone"
           /\ request'[q].phase # "idle" => s8 = q
    BY <1>1, <1>2, <2>1 DEF Status!Idle
  <2>4. restocked[o] = 0
    BY <1>1, <1>4, <2>2 DEF Status!CancelledOnce, Status!FINAL_STATUSES
  <2>5. Status!CancelledOnce'
    BY <1>1, <1>4, <2>4 DEF Status!CancelledOnce, Status!Cancels, Status!TypeOK
  <2> QED BY <2>3, <2>5 DEF Status!OneChange
<1> QED BY <1>3, <1>4 DEF Status!OneChange, Status!CancelledOnce

\* An answer, good or bad or lost, ends its request and what waits for it; a
\* connection that breaks leaves the request alone.
LEMMA StatusAnswerStep ==
    ASSUME Status!PageInv, NEW r \in Requests,
           Status!Succeeds(r) \/ Status!Refused(r) \/ Status!Lost(r)
    PROVE  Status!PageInv'
<1> USE DEF Status!PageInv, Status!InFlight, Status!Answered, Status!Released,
            Status!Succeeds, Status!Refused, Status!Lost
<1> DEFINE table == s5  selected == s6  request == s7  pending == s8
<1>1. table' \in [OrderIds -> Status!ORDER_STATUSES \cup {Status!Unlisted}]
  BY ListedType DEF Status!TypeOK
<1>2. \/ selected' = selected
      \/ /\ pending = r
         /\ selected' \in [order : OrderIds, status : Status!ORDER_STATUSES]
  BY DEF Status!TypeOK, Status!Idle
<1>3. Status!TypeOK'
  BY <1>1, <1>2, BoundsAssumption, NoneAssumption
     DEF Status!TypeOK, Status!Idle, Status!Nothing, Status!Unlisted
<1>4. Status!OneChange'
  BY DEF Status!OneChange, Status!TypeOK, Status!Idle
<1>5. Status!CancelledOnce'
  BY DEF Status!CancelledOnce
<1> QED BY <1>3, <1>4, <1>5

LEMMA StatusBreaksStep ==
    ASSUME Status!PageInv, NEW r \in Requests, Status!Breaks(r)
    PROVE  Status!PageInv'
<1> USE DEF Status!PageInv, Status!InFlight, Status!Breaks, Status!Released
<1>1. Status!TypeOK'
  <2>1. /\ s7' = [s7 EXCEPT ![r].phase = "alone"] /\ s7[r] # Status!Idle
        /\ s9' \in 0 .. MaxFailures /\ s10' = TRUE
    BY BoundsAssumption DEF Status!TypeOK, Status!Idle
  <2>2. s8' = Status!Unlisted \/ (s8' = s8 /\ s8 # r)
    OBVIOUS
  <2> QED BY <2>1, <2>2 DEF Status!TypeOK
<1> QED BY <1>1 DEF Status!OneChange, Status!CancelledOnce

LEMMA PageStep ==
    ASSUME Status!PageInv, [Status!Next]_Status!vars PROVE Status!PageInv'
<1>1. CASE UNCHANGED Status!vars
  BY <1>1 DEF Status!vars, Status!pageVars, Status!PageInv, Status!TypeOK, Status!OneChange,
              Status!CancelledOnce, Status!InFlight
<1>2. CASE Status!Next
  BY <1>2, PageActions, ChangeStatusStep, StatusReadStep, AutoProcessStep, WriteStep,
     StatusAnswerStep, StatusBreaksStep DEF Status!Next
<1> QED BY <1>1, <1>2

\* The inductive invariant of the orders page: types; and until a change is left
\* alone, by the administrator or by the connection, the request in flight is the one
\* the page waits for (AdminOrdersPage.tsx:18-29, 143).
THEOREM PageInvHolds == Spec => [](part = "status" => Status!PageInv)
<1>1. Init => (part = "status" => Status!PageInv)
  BY StatusStarts, PageInit
<1>2. (part = "status" => Status!PageInv) /\ [Next]_slots => (part = "status" => Status!PageInv)'
  <2>1. [Next]_slots => part' = part
    BY DEF Next, slots
  <2> QED BY <2>1, StatusSteps, PageStep
<1> QED BY <1>1, <1>2, PTL DEF Spec

\* One administrator cancels, and restocks, an order once, whatever dialogs are
\* closed and opened while answers are due or get lost, until a change that the
\* server is working on is left alone (AdminOrdersPage.tsx:143, orders.service.ts:137).
THEOREM OrdersAreCancelledOnce == Spec => []CancelledOnce
<1>1. (part = "status" => Status!PageInv) => CancelledOnce
  BY DEF CancelledOnce, Status!PageInv
<1> QED BY <1>1, PageInvHolds, PTL

-----------------------------------------------------------------------------
(* AdminProductsPage: a dialog creates one product, and saves go to theirs. *)

LEMMA ProductsStart ==
    ASSUME Init, part = "products" PROVE ProductDialog!Init
BY DEF Init

LEMMA ProductsStep ==
    ASSUME [Next]_slots, part = "products"
    PROVE  part' = "products" /\ [ProductDialog!Next]_ProductDialog!vars
BY DEF Next, slots, ProductDialog!vars, ProductDialog!historyVars

LEMMA DialogInit ==
    ASSUME ProductDialog!Init PROVE ProductDialog!DialogInv
<1> USE BoundsAssumption
        DEF ProductDialog!Init, ProductDialog!ProductIds, ProductDialog!Closed,
            ProductDialog!Idle, ProductDialog!EMPTY_FORM, ProductDialog!NoImage,
            ProductDialog!Url, ProductDialog!New
<1>1. ProductDialog!TypeOK
  <2>1. 1 .. OnSale \subseteq ProductDialog!ProductIds
    OBVIOUS
  <2> QED BY <2>1 DEF ProductDialog!TypeOK, ProductDialog!Forms, ProductDialog!Images
<1>2. ProductDialog!CreationsCounted
  BY DEF ProductDialog!CreationsCounted, ProductDialog!MayCreate, ProductDialog!Creates
<1>3. ProductDialog!RowsBelong /\ ProductDialog!FormsBelong
  BY DEF ProductDialog!RowsBelong, ProductDialog!FormsBelong, ProductDialog!Belongs
<1> QED BY <1>1, <1>2, <1>3 DEF ProductDialog!DialogInv

\* The images that are not files belong to no product.
LEMMA ImageTypes ==
    /\ ProductDialog!NoImage \in ProductDialog!Images
    /\ ProductDialog!Url \in ProductDialog!Images
    /\ ProductDialog!EMPTY_FORM \in ProductDialog!Forms
    /\ \A p : ProductDialog!Belongs(ProductDialog!EMPTY_FORM, p) <=> p = ProductDialog!New
    /\ \A p \in ProductDialog!ProductIds :
          p # ProductDialog!New /\ ProductDialog!File(p) \in ProductDialog!Images
<1>1. /\ ProductDialog!NoImage \in ProductDialog!Images
      /\ ProductDialog!Url \in ProductDialog!Images
      /\ \A p \in ProductDialog!ProductIds : ProductDialog!File(p) \in ProductDialog!Images
  BY DEF ProductDialog!Images
<1>2. 0 \in 0 .. MaxShelf /\ \A p \in ProductDialog!ProductIds : p # ProductDialog!New
  BY BoundsAssumption DEF ProductDialog!New, ProductDialog!ProductIds
<1>3. ProductDialog!EMPTY_FORM \in ProductDialog!Forms
  BY <1>1, <1>2 DEF ProductDialog!EMPTY_FORM, ProductDialog!Forms
<1>4. \A p : ProductDialog!Belongs(ProductDialog!EMPTY_FORM, p) <=> p = ProductDialog!New
  BY DEF ProductDialog!EMPTY_FORM, ProductDialog!Belongs, ProductDialog!NoImage
<1> QED BY <1>1, <1>2, <1>3, <1>4

\* Clicks on the page and in the dialog.
LEMMA DialogClicks ==
    ASSUME ProductDialog!DialogInv,
           \/ ProductDialog!OpenCreate \/ ProductDialog!Type \/ ProductDialog!Cancel
           \/ ProductDialog!Save
           \/ \E p \in ProductDialog!ProductIds : ProductDialog!OpenEdit(p) \/ ProductDialog!Delete(p)
    PROVE  ProductDialog!DialogInv'
<1> DEFINE dialog == s2  save == s3
<1> USE ImageTypes
        DEF ProductDialog!DialogInv, ProductDialog!TypeOK, ProductDialog!CreationsCounted,
            ProductDialog!Creates, ProductDialog!MayCreate, ProductDialog!RowsBelong,
            ProductDialog!FormsBelong, ProductDialog!historyVars
<1>1. CASE ProductDialog!OpenCreate
  <2>1. /\ dialog' = [open |-> TRUE, editing |-> ProductDialog!New,
                      form |-> ProductDialog!EMPTY_FORM, saving |-> FALSE]
        /\ s5' = s5 + 1 /\ UNCHANGED <<s1, s3, s4, s6, s7, s8>>
        /\ ~dialog.open
    BY <1>1 DEF ProductDialog!OpenCreate, ProductDialog!Show, ProductDialog!Controls
  <2>2. ProductDialog!CreationsCounted'
    BY <2>1
  <2>3. ProductDialog!TypeOK'
    BY <2>1
  <2> QED BY <2>1, <2>2, <2>3
<1>2. CASE ProductDialog!Type
  <2>1. PICK f \in ProductDialog!Edited(dialog.form) : dialog' = [dialog EXCEPT !.form = f]
    BY <1>2 DEF ProductDialog!Type
  <2>2. f \in ProductDialog!Forms
    BY <2>1 DEF ProductDialog!Edited, ProductDialog!Forms
  <2>3. ProductDialog!Belongs(f, dialog.editing)
    BY <2>1 DEF ProductDialog!Edited, ProductDialog!Forms, ProductDialog!Belongs,
                ProductDialog!NoImage, ProductDialog!Url
  <2>4. /\ UNCHANGED <<s1, s3, s4, s5, s6, s7, s8>>
        /\ dialog'.form = f /\ dialog'.open = dialog.open /\ dialog'.editing = dialog.editing
        /\ dialog'.saving = dialog.saving
        /\ dialog' \in [open : BOOLEAN,
                        editing : {ProductDialog!New} \cup ProductDialog!ProductIds,
                        form : ProductDialog!Forms, saving : BOOLEAN]
    BY <1>2, <2>1, <2>2 DEF ProductDialog!Type
  <2> QED BY <2>3, <2>4
<1>3. CASE ProductDialog!Cancel
  <2>1. /\ dialog' = ProductDialog!Closed /\ UNCHANGED <<s1, s3, s4, s5, s6, s7, s8>>
    BY <1>3 DEF ProductDialog!Cancel
  <2> QED BY <2>1 DEF ProductDialog!Closed
<1>4. CASE ProductDialog!Save
  <2>1. /\ dialog.open /\ save.phase = "none" /\ dialog.form.complete
        /\ save' = [phase |-> "sent", step |-> "save", editing |-> dialog.editing,
                    form |-> dialog.form, made |-> FALSE]
        /\ dialog' = [dialog EXCEPT !.saving = TRUE]
        /\ UNCHANGED <<s1, s4, s5, s6, s7, s8>>
    BY <1>4 DEF ProductDialog!Save, ProductDialog!Controls
  <2>2. ~dialog.saving
    BY <2>1
  <2>3. ProductDialog!CreationsCounted'
    BY <2>1, <2>2
  <2>4. ProductDialog!TypeOK'
    BY <2>1
  <2> QED BY <2>1, <2>3, <2>4
<1>5. ASSUME NEW p \in ProductDialog!ProductIds, ProductDialog!OpenEdit(p)
      PROVE  ProductDialog!DialogInv'
  <2> DEFINE f == [of |-> p, complete |-> TRUE, stock |-> s1[p].stock, image |-> s1[p].image,
                   file |-> FALSE]
  <2>1. /\ p \in DOMAIN s1 /\ ~dialog.open
        /\ dialog' = [open |-> TRUE, editing |-> p, form |-> f, saving |-> FALSE]
        /\ UNCHANGED <<s1, s3, s4, s5, s6, s7, s8>>
    BY <1>5 DEF ProductDialog!OpenEdit, ProductDialog!Show, ProductDialog!Exists,
                ProductDialog!Controls
  <2>2. f \in ProductDialog!Forms /\ ProductDialog!Belongs(f, p)
    BY <2>1 DEF ProductDialog!Forms, ProductDialog!Belongs
  <2> HIDE DEF f
  <2> QED BY <2>1, <2>2
<1>6. ASSUME NEW p \in ProductDialog!ProductIds, ProductDialog!Delete(p)
      PROVE  ProductDialog!DialogInv'
  <2>1. s4' = {p} /\ UNCHANGED <<s1, s2, s3, s5, s6, s7, s8>>
    BY <1>6 DEF ProductDialog!Delete
  <2> QED BY <2>1
<1> QED BY <1>1, <1>2, <1>3, <1>4, <1>5, <1>6

\* A write of a row that belongs where it goes.
LEMMA PutKeepsRows ==
    ASSUME ProductDialog!TypeOK, ProductDialog!RowsBelong, NEW p \in ProductDialog!ProductIds,
           NEW row \in [of : ProductDialog!ProductIds, stock : 0 .. MaxShelf,
                        image : ProductDialog!Images],
           s1' = ProductDialog!Put(p, row), ProductDialog!Belongs(row, p)
    PROVE  /\ DOMAIN s1' \subseteq ProductDialog!ProductIds
           /\ \A q \in DOMAIN s1' : s1'[q] \in [of : ProductDialog!ProductIds,
                                                stock : 0 .. MaxShelf,
                                                image : ProductDialog!Images]
           /\ ProductDialog!RowsBelong'
<1>1. DOMAIN s1' = DOMAIN s1 \cup {p} /\ \A q \in DOMAIN s1' : s1'[q] = IF q = p THEN row ELSE s1[q]
  BY DEF ProductDialog!Put
<1> QED BY <1>1 DEF ProductDialog!TypeOK, ProductDialog!RowsBelong, ProductDialog!Belongs

\* What was saved can be written.
LEMMA SavedForm ==
    ASSUME ProductDialog!TypeOK
    PROVE  /\ s3.form \in ProductDialog!Forms
           /\ s3.form.stock \in 0 .. MaxShelf /\ s3.form.image \in ProductDialog!Images
BY DEF ProductDialog!TypeOK, ProductDialog!Forms

\* The server uploads.
LEMMA UploadStep ==
    ASSUME ProductDialog!DialogInv, ProductDialog!Upload PROVE ProductDialog!DialogInv'
<1> USE DEF ProductDialog!DialogInv, ProductDialog!Upload, ProductDialog!UploadTarget,
            ProductDialog!historyVars, ProductDialog!Served, ProductDialog!Exists
<1> DEFINE db == s1  save == s3
           p == save.editing
           row == [db[p] EXCEPT !.image = ProductDialog!File(save.form.of)]
<1>1. p \in ProductDialog!ProductIds /\ p \in DOMAIN db /\ save.form.of = p
  BY DEF ProductDialog!TypeOK, ProductDialog!FormsBelong, ProductDialog!Belongs
<1>2. row \in [of : ProductDialog!ProductIds, stock : 0 .. MaxShelf, image : ProductDialog!Images]
  BY <1>1, ImageTypes DEF ProductDialog!TypeOK
<1>3. ProductDialog!Belongs(row, p)
  BY <1>1 DEF ProductDialog!TypeOK, ProductDialog!RowsBelong, ProductDialog!Belongs,
              ProductDialog!File
<1>4. db' = ProductDialog!Put(p, row)
  OBVIOUS
<1> HIDE DEF row
<1>5. /\ DOMAIN db' \subseteq ProductDialog!ProductIds
      /\ \A q \in DOMAIN db' : db'[q] \in [of : ProductDialog!ProductIds, stock : 0 .. MaxShelf,
                                           image : ProductDialog!Images]
      /\ ProductDialog!RowsBelong'
  BY <1>1, <1>2, <1>3, <1>4, PutKeepsRows
<1>6. ProductDialog!TypeOK'
  BY <1>5 DEF ProductDialog!TypeOK
<1>7. ProductDialog!CreationsCounted'
  BY DEF ProductDialog!TypeOK, ProductDialog!CreationsCounted, ProductDialog!MayCreate,
         ProductDialog!Creates
<1>8. ProductDialog!FormsBelong'
  BY DEF ProductDialog!TypeOK, ProductDialog!FormsBelong
<1> QED BY <1>5, <1>6, <1>7, <1>8

\* The server creates: the click that may was counted.
LEMMA CreateStep ==
    ASSUME ProductDialog!DialogInv, NEW p \in ProductDialog!ProductIds, ProductDialog!Create(p)
    PROVE  ProductDialog!DialogInv'
<1> USE DEF ProductDialog!DialogInv, ProductDialog!Create
<1> DEFINE db == s1  dialog == s2  save == s3
           row == [of |-> p, stock |-> save.form.stock, image |-> save.form.image]
<1>1. row \in [of : ProductDialog!ProductIds, stock : 0 .. MaxShelf, image : ProductDialog!Images]
  BY SavedForm
<1>2. /\ save.editing = ProductDialog!New /\ ProductDialog!New \notin ProductDialog!ProductIds
      /\ ProductDialog!Belongs(save.form, ProductDialog!New)
      /\ save.form.image.kind # "file"
  <2>1. ProductDialog!Belongs(save.form, ProductDialog!New)
    BY DEF ProductDialog!FormsBelong
  <2>2. ProductDialog!New \notin ProductDialog!ProductIds
    BY ImageTypes
  <2>3. save.form.image.kind = "file" => save.form.image.of \in ProductDialog!ProductIds
    BY SavedForm DEF ProductDialog!Images, ProductDialog!NoImage, ProductDialog!Url,
                     ProductDialog!File
  <2> QED BY <2>1, <2>2, <2>3 DEF ProductDialog!Belongs
<1>3. ProductDialog!Belongs(row, p)
  BY <1>2 DEF ProductDialog!Belongs
<1>4. db' = ProductDialog!Put(p, row)
  OBVIOUS
<1>5. /\ save'.phase = "served" /\ save'.step = "save" /\ save'.editing = p /\ save'.made
      /\ save'.form = [save.form EXCEPT !.of = p] /\ save'.form \in ProductDialog!Forms
      /\ save'.form.complete = save.form.complete
      /\ save' \in [phase : {"none", "sent", "served"}, step : {"save", "upload"},
                    editing : {ProductDialog!New} \cup ProductDialog!ProductIds,
                    form : ProductDialog!Forms, made : BOOLEAN]
  BY SavedForm DEF ProductDialog!TypeOK, ProductDialog!Forms
<1> HIDE DEF row
<1>6. /\ DOMAIN db' \subseteq ProductDialog!ProductIds
      /\ \A q \in DOMAIN db' : db'[q] \in [of : ProductDialog!ProductIds, stock : 0 .. MaxShelf,
                                           image : ProductDialog!Images]
      /\ ProductDialog!RowsBelong'
  BY <1>1, <1>3, <1>4, PutKeepsRows
<1>7. ProductDialog!TypeOK'
  BY <1>5, <1>6 DEF ProductDialog!TypeOK
<1>8. ProductDialog!CreationsCounted'
  BY <1>5 DEF ProductDialog!TypeOK, ProductDialog!CreationsCounted, ProductDialog!MayCreate,
              ProductDialog!Creates
<1>9. ProductDialog!FormsBelong'
  <2>1. ProductDialog!Belongs(save'.form, p)
    BY <1>2, <1>5, SavedForm DEF ProductDialog!Belongs, ProductDialog!Forms
  <2> QED BY <1>2, <1>5, <2>1 DEF ProductDialog!FormsBelong
<1> QED BY <1>6, <1>7, <1>8, <1>9

\* The server updates, and keeps an image that the form has not got.
LEMMA UpdateStep ==
    ASSUME ProductDialog!DialogInv, NEW p \in ProductDialog!ProductIds, ProductDialog!Update(p)
    PROVE  ProductDialog!DialogInv'
<1> USE DEF ProductDialog!DialogInv, ProductDialog!Update, ProductDialog!Served,
            ProductDialog!Exists, ProductDialog!historyVars
<1> DEFINE db == s1  save == s3
           row == [of |-> save.form.of, stock |-> save.form.stock,
                   image |-> IF save.form.image = ProductDialog!NoImage THEN db[p].image
                             ELSE save.form.image]
<1>1. save.form.of = p /\ ProductDialog!Belongs(save.form, p)
  BY DEF ProductDialog!FormsBelong, ProductDialog!Belongs
<1>2. row \in [of : ProductDialog!ProductIds, stock : 0 .. MaxShelf, image : ProductDialog!Images]
  BY <1>1, SavedForm DEF ProductDialog!TypeOK
<1>3. ProductDialog!Belongs(row, p)
  BY <1>1 DEF ProductDialog!RowsBelong, ProductDialog!Belongs
<1>4. db' = ProductDialog!Put(p, row)
  OBVIOUS
<1> HIDE DEF row
<1>5. /\ DOMAIN db' \subseteq ProductDialog!ProductIds
      /\ \A q \in DOMAIN db' : db'[q] \in [of : ProductDialog!ProductIds, stock : 0 .. MaxShelf,
                                           image : ProductDialog!Images]
      /\ ProductDialog!RowsBelong'
  BY <1>2, <1>3, <1>4, PutKeepsRows
<1>6. /\ save'.phase = "served" /\ save'.step = save.step /\ save'.editing = p
      /\ save'.form = save.form /\ save'.made = save.made
  BY DEF ProductDialog!TypeOK
<1>7. ProductDialog!TypeOK'
  BY <1>5 DEF ProductDialog!TypeOK
<1>8. ProductDialog!New \notin ProductDialog!ProductIds
  BY ImageTypes
<1>9. ProductDialog!CreationsCounted'
  BY <1>6, <1>8 DEF ProductDialog!TypeOK, ProductDialog!CreationsCounted,
                    ProductDialog!MayCreate, ProductDialog!Creates
<1>10. ProductDialog!FormsBelong'
  BY <1>1, <1>6, <1>8 DEF ProductDialog!FormsBelong
<1> QED BY <1>5, <1>7, <1>9, <1>10

\* A save is answered, or fails.
LEMMA SaveEnds ==
    ASSUME ProductDialog!DialogInv, ProductDialog!SaveFails \/ ProductDialog!SaveAnswered
    PROVE  ProductDialog!DialogInv'
<1> DEFINE dialog == s2  save == s3
<1> USE ImageTypes
        DEF ProductDialog!DialogInv, ProductDialog!TypeOK, ProductDialog!CreationsCounted,
            ProductDialog!Creates, ProductDialog!MayCreate, ProductDialog!RowsBelong,
            ProductDialog!FormsBelong, ProductDialog!historyVars, ProductDialog!Idle
<1>1. CASE ProductDialog!SaveFails
  <2>1. /\ save' = ProductDialog!Idle /\ dialog' = [dialog EXCEPT !.saving = FALSE]
        /\ s8' = (IF save.made THEN s8 + 1 ELSE s8) /\ s7' = s7 + 1
        /\ save.phase # "none" /\ UNCHANGED <<s1, s4, s5, s6>>
    BY <1>1 DEF ProductDialog!SaveFails
  <2>2. /\ save'.phase = "none" /\ ~dialog'.saving /\ dialog'.open = dialog.open
        /\ dialog'.editing = dialog.editing /\ s6' = s6 /\ s5' = s5
    BY <2>1
  <2>3. ProductDialog!CreationsCounted'
    <3> SUFFICES ASSUME dialog.open /\ dialog.editing = ProductDialog!New
                 PROVE  s6 + 1 <= s5 + s8'
      BY <2>1, <2>2
    <3>1. CASE dialog.saving /\ save.made
      BY <2>1, <3>1
    <3>2. CASE dialog.saving /\ ~save.made
      <4>1. ProductDialog!Creates
        BY <3>2
      <4> QED BY <2>1, <4>1
    <3>3. CASE ~dialog.saving
      BY <2>1, <3>3
    <3> QED BY <3>1, <3>2, <3>3
  <2>4. ProductDialog!TypeOK'
    <3>1. s7' \in Nat /\ s8' \in Nat
      BY <2>1
    <3>2. dialog' \in [open : BOOLEAN,
                       editing : {ProductDialog!New} \cup ProductDialog!ProductIds,
                       form : ProductDialog!Forms, saving : BOOLEAN]
      BY <2>1
    <3> QED BY <2>1, <3>1, <3>2
  <2>5. ProductDialog!FormsBelong'
    BY <2>1
  <2> QED BY <2>1, <2>3, <2>4, <2>5
<1>2. CASE ProductDialog!SaveAnswered
  <2>1. CASE save.step = "save" /\ save.form.file
    <3>1. /\ save' = [save EXCEPT !.phase = "sent", !.step = "upload"]
          /\ save.phase = "served" /\ UNCHANGED <<s1, s2, s4, s5, s6, s7, s8>>
      BY <1>2, <2>1 DEF ProductDialog!SaveAnswered
    <3>2. /\ save'.phase = "sent" /\ save'.step = "upload" /\ save'.editing = save.editing
          /\ save'.form = save.form /\ save'.made = save.made
      BY <3>1
    <3>3. ProductDialog!TypeOK'
      BY <2>1, <3>1, <3>2
    <3> QED BY <3>1, <3>2, <3>3
  <2>2. CASE ~(save.step = "save" /\ save.form.file)
    <3>1. /\ save' = ProductDialog!Idle /\ dialog' = ProductDialog!Closed
          /\ save.phase = "served" /\ UNCHANGED <<s1, s4, s5, s6, s7, s8>>
      BY <1>2, <2>2 DEF ProductDialog!SaveAnswered
    <3>2. ProductDialog!TypeOK'
      BY <3>1 DEF ProductDialog!Closed
    <3> QED BY <3>1, <3>2 DEF ProductDialog!Closed
  <2> QED BY <2>1, <2>2
<1> QED BY <1>1, <1>2

\* Products are deleted and sold.
LEMMA ProductsChange ==
    ASSUME ProductDialog!DialogInv, NEW p \in ProductDialog!ProductIds,
           ProductDialog!DeleteServed(p) \/ ProductDialog!Sell(p)
    PROVE  ProductDialog!DialogInv'
<1> USE DEF ProductDialog!DialogInv, ProductDialog!CreationsCounted, ProductDialog!Creates,
            ProductDialog!MayCreate, ProductDialog!FormsBelong, ProductDialog!historyVars
<1> DEFINE db == s1
<1>1. CASE ProductDialog!DeleteServed(p)
  BY <1>1 DEF ProductDialog!DeleteServed, ProductDialog!Without, ProductDialog!TypeOK,
              ProductDialog!RowsBelong
<1>2. CASE ProductDialog!Sell(p)
  <2> DEFINE row == [db[p] EXCEPT !.stock = @ - 1]
  <2>1. row \in [of : ProductDialog!ProductIds, stock : 0 .. MaxShelf,
                 image : ProductDialog!Images]
    BY <1>2, BoundsAssumption
       DEF ProductDialog!Sell, ProductDialog!Exists, ProductDialog!TypeOK
  <2>2. ProductDialog!Belongs(row, p)
    BY <1>2 DEF ProductDialog!Sell, ProductDialog!Exists, ProductDialog!TypeOK,
                ProductDialog!RowsBelong, ProductDialog!Belongs
  <2>3. db' = ProductDialog!Put(p, row)
    BY <1>2 DEF ProductDialog!Sell
  <2> HIDE DEF row
  <2>4. /\ DOMAIN db' \subseteq ProductDialog!ProductIds
        /\ \A q \in DOMAIN db' : db'[q] \in [of : ProductDialog!ProductIds,
                                             stock : 0 .. MaxShelf,
                                             image : ProductDialog!Images]
        /\ ProductDialog!RowsBelong'
    BY <2>1, <2>2, <2>3, PutKeepsRows
  <2> QED BY <1>2, <2>4 DEF ProductDialog!Sell, ProductDialog!TypeOK
<1> QED BY <1>1, <1>2

LEMMA DialogStep ==
    ASSUME ProductDialog!DialogInv, [ProductDialog!Next]_ProductDialog!vars
    PROVE  ProductDialog!DialogInv'
<1>1. CASE UNCHANGED ProductDialog!vars
  BY <1>1 DEF ProductDialog!vars, ProductDialog!historyVars, ProductDialog!DialogInv,
              ProductDialog!TypeOK, ProductDialog!CreationsCounted, ProductDialog!Creates,
              ProductDialog!MayCreate, ProductDialog!RowsBelong, ProductDialog!FormsBelong
<1>2. CASE ProductDialog!Next
  BY <1>2, DialogClicks, UploadStep, CreateStep, UpdateStep, SaveEnds, ProductsChange
     DEF ProductDialog!Next
<1> QED BY <1>1, <1>2

\* The inductive invariant of the dialog: the product that a click may create is
\* counted; and the form that is shown, the form that is being saved and every row
\* belong to one product (AdminProductsPage.tsx:99-126).
THEOREM DialogInvHolds == Spec => [](part = "products" => ProductDialog!DialogInv)
<1>1. Init => (part = "products" => ProductDialog!DialogInv)
  BY ProductsStart, DialogInit
<1>2. (part = "products" => ProductDialog!DialogInv) /\ [Next]_slots
         => (part = "products" => ProductDialog!DialogInv)'
  <2>1. [Next]_slots => part' = part
    BY DEF Next, slots
  <2> QED BY <2>1, ProductsStep, DialogStep
<1> QED BY <1>1, <1>2, PTL DEF Spec

\* A dialog creates one product, and one more for every save that failed after it
\* had created its product; what a row holds was typed into a dialog of its product,
\* and an uploaded file was chosen in one (AdminProductsPage.tsx:110-120).
THEOREM SavesGoWhereTheyWereMeant == Spec => []SavesGoWhereMeant
<1>1. (part = "products" => ProductDialog!DialogInv) => SavesGoWhereMeant
  BY DEF SavesGoWhereMeant, ProductDialog!DialogInv, ProductDialog!TypeOK,
         ProductDialog!CreationsCounted, ProductDialog!OneProductPerDialog
<1> QED BY <1>1, DialogInvHolds, PTL

-----------------------------------------------------------------------------
(* AdminCategoriesPage: the table that waits for nothing shows the database. *)

LEMMA CategoriesStart ==
    ASSUME Init, part = "categories" PROVE CategoryTable!Init
BY DEF Init

LEMMA CategoriesStep ==
    ASSUME [Next]_slots, part = "categories"
    PROVE  part' = "categories" /\ [CategoryTable!Next]_CategoryTable!vars
BY DEF Next, slots, CategoryTable!vars, CategoryTable!queryVars

LEMMA TableInit ==
    ASSUME CategoryTable!Init PROVE CategoryTable!TableInv
<1> USE DEF CategoryTable!Init, CategoryTable!NONE
<1>1. CategoryTable!IsTable(s1) /\ CategoryTable!IsTable(<<>>) /\ s11 = FALSE
  BY DEF CategoryTable!IsTable
<1>2. CategoryTable!TypeOK
  BY <1>1 DEF CategoryTable!TypeOK, CategoryTable!Closed, CategoryTable!Idle,
              CategoryTable!NoDeletes
<1>3. CategoryTable!AnswersAreFresh
  BY DEF CategoryTable!AnswersAreFresh
<1> QED BY <1>2, <1>3 DEF CategoryTable!TableInv

\* A category that is written, or deleted, leaves a table.
LEMMA WritesKeepTable ==
    ASSUME CategoryTable!TypeOK, NEW c \in Categories
    PROVE  /\ \A n \in Names : CategoryTable!IsTable(CategoryTable!Put(c, n))
           /\ \A n : s2 \subseteq DOMAIN CategoryTable!Put(c, n)
           /\ CategoryTable!IsTable(CategoryTable!Without(c))
           /\ c \notin s2 => s2 \subseteq DOMAIN CategoryTable!Without(c)
BY DEF CategoryTable!TypeOK, CategoryTable!IsTable, CategoryTable!Put, CategoryTable!Without

\* The page: nothing is written, and the query is left alone.
LEMMA TableClicks ==
    ASSUME CategoryTable!TableInv,
           \/ CategoryTable!OpenCreate \/ CategoryTable!Cancel \/ CategoryTable!Save
           \/ \E n \in Names : CategoryTable!Type(n)
           \/ \E c \in Categories : CategoryTable!OpenEdit(c) \/ CategoryTable!Delete(c)
    PROVE  CategoryTable!TableInv'
<1> USE DEF CategoryTable!TableInv, CategoryTable!TypeOK, CategoryTable!IsTable,
            CategoryTable!AnswersAreFresh, CategoryTable!queryVars, CategoryTable!NONE
<1>1. CASE CategoryTable!OpenCreate
  BY <1>1 DEF CategoryTable!OpenCreate, CategoryTable!Show
<1>2. CASE CategoryTable!Cancel
  BY <1>2 DEF CategoryTable!Cancel, CategoryTable!Closed
<1>3. CASE CategoryTable!Save
  BY <1>3 DEF CategoryTable!Save, CategoryTable!Controls
<1>4. ASSUME NEW n \in Names, CategoryTable!Type(n) PROVE CategoryTable!TableInv'
  BY <1>4 DEF CategoryTable!Type
<1>5. ASSUME NEW c \in Categories, CategoryTable!OpenEdit(c) PROVE CategoryTable!TableInv'
  BY <1>5 DEF CategoryTable!OpenEdit, CategoryTable!Show
<1>6. ASSUME NEW c \in Categories, CategoryTable!Delete(c) PROVE CategoryTable!TableInv'
  BY <1>6 DEF CategoryTable!Delete
<1> QED BY <1>1, <1>2, <1>3, <1>4, <1>5, <1>6

\* The server, and others: what is written has to be answered, or is unseen.
LEMMA TableWrites ==
    ASSUME CategoryTable!TableInv, NEW c \in Categories,
           \/ CategoryTable!Writes(c) \/ CategoryTable!DeleteServed(c) \/ CategoryTable!File(c)
           \/ \E n \in Names : CategoryTable!OtherWrites(c, n)
    PROVE  CategoryTable!TableInv'
<1> USE DEF CategoryTable!TableInv, CategoryTable!AnswersAreFresh, CategoryTable!queryVars
<1>1. CASE CategoryTable!Writes(c)
  BY <1>1, WritesKeepTable DEF CategoryTable!Writes, CategoryTable!TypeOK
<1>2. CASE CategoryTable!DeleteServed(c)
  <2>1. CASE CategoryTable!Deletable(c)
    BY <1>2, <2>1, WritesKeepTable
       DEF CategoryTable!DeleteServed, CategoryTable!Deletable, CategoryTable!TypeOK
  <2>2. CASE ~CategoryTable!Deletable(c)
    BY <1>2, <2>2 DEF CategoryTable!DeleteServed, CategoryTable!TypeOK
  <2> QED BY <2>1, <2>2
<1>3. CASE CategoryTable!File(c)
  BY <1>3 DEF CategoryTable!File, CategoryTable!Exists, CategoryTable!TypeOK
<1>4. ASSUME NEW n \in Names, CategoryTable!OtherWrites(c, n) PROVE CategoryTable!TableInv'
  BY <1>4, WritesKeepTable DEF CategoryTable!OtherWrites, CategoryTable!TypeOK
<1> QED BY <1>1, <1>2, <1>3, <1>4

\* A query that has data drops its fetch for a new one; one that has none joins it,
\* and then what was answered before may miss a write.
LEMMA Invalidated ==
    ASSUME CategoryTable!TypeOK, CategoryTable!Invalidate
    PROVE  /\ s4' \in {"none", "sent", "answered"} /\ CategoryTable!IsTable(s5')
           /\ s4' # "none" /\ s9' \in BOOLEAN
           /\ s4' = "answered" => s9'
<1> USE DEF CategoryTable!TypeOK
<1>1. CASE s11 \/ s4 = "none"
  <2>1. s4' = "sent" /\ s5' = CategoryTable!NONE /\ s9' = s9
    BY <1>1 DEF CategoryTable!Invalidate
  <2>2. CategoryTable!IsTable(CategoryTable!NONE)
    BY DEF CategoryTable!IsTable, CategoryTable!NONE
  <2> QED BY <2>1, <2>2
<1>2. CASE ~(s11 \/ s4 = "none")
  <2>1. s9' = (s9 \/ s4 = "answered") /\ s4' = s4 /\ s5' = s5
    BY <1>2 DEF CategoryTable!Invalidate
  <2>2. s9' \in BOOLEAN /\ (s4 = "answered" => s9')
    BY <2>1, Zenon
  <2> QED BY <1>2, <2>1, <2>2
<1> QED BY <1>1, <1>2

\* Answers, which fetch the table again, and lost ones, which leave it unseen.
LEMMA TableAnswers ==
    ASSUME CategoryTable!TableInv,
           \/ CategoryTable!Refused \/ CategoryTable!SaveSucceeds
           \/ CategoryTable!SaveEnds \/ CategoryTable!SaveLost
           \/ \E c \in Categories : CategoryTable!DeleteSucceeds(c) \/ CategoryTable!DeleteLost(c)
    PROVE  CategoryTable!TableInv'
<1> USE DEF CategoryTable!TableInv, CategoryTable!TypeOK, CategoryTable!IsTable,
            CategoryTable!AnswersAreFresh, CategoryTable!queryVars, CategoryTable!NONE,
            CategoryTable!Idle
<1> DEFINE save == s7  deletes == s8  unseen == s9  failures == s10
<1>1. CASE CategoryTable!Refused
  BY <1>1 DEF CategoryTable!Refused
<1>2. CASE CategoryTable!SaveSucceeds
  <2>1. /\ s4' \in {"none", "sent", "answered"} /\ CategoryTable!IsTable(s5')
        /\ s4' # "none" /\ s9' \in BOOLEAN /\ (s4' = "answered" => s9')
    BY <1>2, Invalidated DEF CategoryTable!SaveSucceeds
  <2>2. /\ UNCHANGED <<s1, s2, s3, s6, s8, s10, s11>>
        /\ save' = [save EXCEPT !.phase = "refetching"] /\ save.phase = "served"
    BY <1>2 DEF CategoryTable!SaveSucceeds
  <2>3. CategoryTable!TypeOK'
    BY <2>1, <2>2
  <2>4. CategoryTable!AnswersAreFresh'
    BY <2>1
  <2> QED BY <2>3, <2>4
<1>3. CASE CategoryTable!SaveEnds
  <2>1. /\ UNCHANGED <<s1, s2, s3, s4, s5, s8, s9, s10, s11>> /\ save.phase = "refetching"
        /\ save' = CategoryTable!Idle /\ s6' = CategoryTable!Closed
    BY <1>3 DEF CategoryTable!SaveEnds
  <2> QED BY <2>1 DEF CategoryTable!Closed
<1>4. CASE CategoryTable!SaveLost
  <2>1. unseen' \in BOOLEAN /\ (~unseen' => ~unseen /\ save.phase # "served")
    BY <1>4, Zenon DEF CategoryTable!SaveLost
  <2>2. /\ save' = [phase |-> "none", editing |-> <<>>, form |-> <<>>] /\ failures' = failures + 1
        /\ UNCHANGED <<s1, s2, s3, s4, s5, s6, s8, s11>>
    BY <1>4 DEF CategoryTable!SaveLost
  <2> QED BY <2>1, <2>2
<1>5. ASSUME NEW c \in Categories, CategoryTable!DeleteSucceeds(c) PROVE CategoryTable!TableInv'
  <2>1. /\ s4' \in {"none", "sent", "answered"} /\ CategoryTable!IsTable(s5')
        /\ s4' # "none" /\ s9' \in BOOLEAN /\ (s4' = "answered" => s9')
    BY <1>5, Invalidated DEF CategoryTable!DeleteSucceeds, CategoryTable!AfterDelete
  <2>2. deletes' \in [sent : SUBSET Categories, served : SUBSET Categories]
    BY <1>5 DEF CategoryTable!DeleteSucceeds
  <2>3. UNCHANGED <<s1, s2, s3, s6, s7, s10, s11>>
    BY <1>5 DEF CategoryTable!DeleteSucceeds
  <2>4. CategoryTable!TypeOK'
    BY <2>1, <2>2, <2>3
  <2>5. CategoryTable!AnswersAreFresh'
    BY <2>1
  <2> QED BY <2>4, <2>5
<1>6. ASSUME NEW c \in Categories, CategoryTable!DeleteLost(c) PROVE CategoryTable!TableInv'
  <2>1. unseen' \in BOOLEAN /\ (~unseen' => ~unseen /\ c \notin deletes.served)
    BY <1>6, Zenon DEF CategoryTable!DeleteLost
  <2>2. /\ deletes' = [sent |-> deletes.sent \ {c}, served |-> deletes.served \ {c}]
        /\ failures' = failures + 1 /\ UNCHANGED <<s1, s2, s3, s4, s5, s6, s7, s11>>
    BY <1>6 DEF CategoryTable!DeleteLost
  <2>3. ~unseen' => deletes.served \ {c} = deletes.served
    BY <2>1
  <2> QED BY <2>1, <2>2, <2>3
<1> QED BY <1>1, <1>2, <1>3, <1>4, <1>5, <1>6

\* The fetch of the table.
LEMMA TableFetches ==
    ASSUME CategoryTable!TableInv,
           \/ CategoryTable!FetchServed \/ CategoryTable!FetchAnswered
           \/ CategoryTable!FetchFails \/ CategoryTable!ComeBack
    PROVE  CategoryTable!TableInv'
<1> USE DEF CategoryTable!TableInv, CategoryTable!TypeOK, CategoryTable!AnswersAreFresh
<1>1. CategoryTable!IsTable(CategoryTable!NONE)
  BY DEF CategoryTable!IsTable, CategoryTable!NONE
<1>2. CASE CategoryTable!FetchServed
  BY <1>2 DEF CategoryTable!FetchServed
<1>3. CASE CategoryTable!FetchAnswered
  BY <1>1, <1>3 DEF CategoryTable!FetchAnswered
<1>4. CASE CategoryTable!FetchFails
  BY <1>1, <1>4 DEF CategoryTable!FetchFails
<1>5. CASE CategoryTable!ComeBack
  <2>1. s4' # "none" /\ s4' \in {"none", "sent", "answered"} /\ CategoryTable!IsTable(s5')
        /\ s9' \in BOOLEAN /\ (s4' = "answered" => s9')
    BY <1>5, Invalidated DEF CategoryTable!ComeBack
  <2>2. UNCHANGED <<s1, s2, s3, s6, s7, s8, s10, s11>>
    BY <1>5 DEF CategoryTable!ComeBack
  <2> QED BY <2>1, <2>2
<1> QED BY <1>2, <1>3, <1>4, <1>5

LEMMA TableStep ==
    ASSUME CategoryTable!TableInv, [CategoryTable!Next]_CategoryTable!vars
    PROVE  CategoryTable!TableInv'
<1>1. CASE UNCHANGED CategoryTable!vars
  BY <1>1 DEF CategoryTable!vars, CategoryTable!queryVars, CategoryTable!TableInv,
              CategoryTable!TypeOK, CategoryTable!AnswersAreFresh, CategoryTable!IsTable
<1>2. CASE CategoryTable!Next
  BY <1>2, TableClicks, TableWrites, TableAnswers, TableFetches DEF CategoryTable!Next
<1> QED BY <1>1, <1>2

\* The inductive invariant of the table: what it shows, or is about to, is as old as
\* the last write that the page waits to hear of, but for a write that was told to a
\* first load which had been answered before (useCategories.ts:5, 8-31).
THEOREM TableInvHolds == Spec => [](part = "categories" => CategoryTable!TableInv)
<1>1. Init => (part = "categories" => CategoryTable!TableInv)
  BY CategoriesStart, TableInit
<1>2. (part = "categories" => CategoryTable!TableInv) /\ [Next]_slots
         => (part = "categories" => CategoryTable!TableInv)'
  <2>1. [Next]_slots => part' = part
    BY DEF Next, slots
  <2> QED BY <2>1, CategoriesStep, TableStep
<1> QED BY <1>1, <1>2, PTL DEF Spec

\* When nothing is under way the table shows the database, however deletes and
\* saves overlapped and dropped each other's fetches, unless a first load was joined
\* after the server had answered it (useCategories.ts:5, 8-31).
THEOREM SettledTableShowsDatabase == Spec => []TableShowsDatabase
<1>1. (part = "categories" => CategoryTable!TableInv) => TableShowsDatabase
  BY DEF TableShowsDatabase, CategoryTable!TableInv, CategoryTable!AnswersAreFresh,
         CategoryTable!TableShowsDatabase, CategoryTable!NoDeletes
<1> QED BY <1>1, TableInvHolds, PTL
=============================================================================
