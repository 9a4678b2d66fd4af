------------------------ MODULE CustomerPages_proofs ------------------------
(***************************************************************************)
(* What customers are promised, for any number of products, clicks and     *)
(* requests: the cart holds what was in stock, its page shows the server's *)
(* cart, a cart is bought once and at the prices that were listed, and the *)
(* history shows every order.                                              *)
(***************************************************************************)
EXTENDS Shop, FiniteSetTheorems, SequenceTheorems, TLAPS

-----------------------------------------------------------------------------
(* CartService *)

LEMMA BasketStarts ==
    ASSUME Init, part = "cart" PROVE Basket!Init
BY DEF Init

LEMMA BasketSteps ==
    ASSUME [Next]_slots, part = "cart"
    PROVE  part' = "cart" /\ [Basket!Next]_Basket!vars
BY DEF Next, slots, Basket!vars, Basket!shopVars, Basket!inputVars

LEMMA CartInit ==
    ASSUME Basket!Init PROVE Basket!CartInv /\ Basket!OneAtATime
<1>1. Basket!TypeOK
  BY CartAssumption DEF Basket!Init, Basket!TypeOK
<1>2. Basket!ReadsAreCovered /\ Basket!OneAtATime
  BY DEF Basket!Init, Basket!ReadsAreCovered, Basket!OneAtATime,
         Basket!InFlight, Basket!Statements, Basket!CartRequests
<1> QED BY <1>1, <1>2 DEF Basket!CartInv

\* A request arrives, reads, and compares.
LEMMA ReadingKeepsCartInv ==
    ASSUME Basket!CartInv, NEW r \in Basket!CartRequests,
           \/ Basket!Receive(r) \/ Basket!AddFindProduct(r) \/ Basket!AddFindItem(r)
           \/ Basket!UpsertSelect(r) \/ Basket!UpdateFindProduct(r)
    PROVE  Basket!CartInv'
<1> DEFINE stock == s2  row == s3  item == s5  qty == s6
<1> USE DEF Basket!CartInv, Basket!TypeOK, Basket!ReadsAreCovered, Basket!InFlight,
            Basket!Statements, Basket!Answers, Basket!shopVars, Basket!inputVars
<1>0. qty[r] \in Nat /\ row[item[r]] \in Nat /\ stock[item[r]] \in Nat
  <2>1. qty[r] \in Amounts /\ item[r] \in CartProducts
    OBVIOUS
  <2> QED BY <2>1, CartAssumption
<1>1. CASE Basket!Receive(r)
  BY <1>1, CartAssumption DEF Basket!Receive, Basket!FirstStatement
<1>2. CASE Basket!AddFindProduct(r)
  BY <1>2 DEF Basket!AddFindProduct
<1>3. CASE Basket!AddFindItem(r)
  <2>1. Basket!Desired(r) \in Nat
    BY <1>0 DEF Basket!Desired
  <2> QED BY <1>3, <2>1 DEF Basket!AddFindItem, Basket!Available
<1>4. CASE Basket!UpsertSelect(r)
  BY <1>4 DEF Basket!UpsertSelect
<1>5. CASE Basket!UpdateFindProduct(r)
  BY <1>0, <1>5 DEF Basket!UpdateFindProduct
<1> QED BY <1>1, <1>2, <1>3, <1>4, <1>5

\* A request writes, and is answered.
LEMMA WritingKeepsCartInv ==
    ASSUME Basket!CartInv, NEW r \in Basket!CartRequests,
           Basket!UpsertInsert(r) \/ Basket!WriteRow(r) \/ Basket!DeleteRow(r)
    PROVE  Basket!CartInv'
<1> USE DEF Basket!CartInv, Basket!TypeOK, Basket!ReadsAreCovered, Basket!InFlight,
            Basket!Statements, Basket!Answers, Basket!shopVars, Basket!inputVars
<1>1. CASE Basket!UpsertInsert(r)
  BY <1>1 DEF Basket!UpsertInsert
<1>2. CASE Basket!WriteRow(r)
  BY <1>2 DEF Basket!WriteRow
<1>3. CASE Basket!DeleteRow(r)
  BY <1>3 DEF Basket!DeleteRow
<1> QED BY <1>1, <1>2, <1>3

\* Stocks move, products disappear, the cart is bought.
LEMMA ShopKeepsCartInv ==
    ASSUME Basket!CartInv,
           \/ \E p \in CartProducts :
              Basket!RemoveProduct(p) \/ \E n \in StockLevels : Basket!SetStock(p, n)
           \/ Basket!BuyCart
    PROVE  Basket!CartInv'
<1> DEFINE stock == s2  item == s5  best == s10
<1> USE DEF Basket!CartInv, Basket!TypeOK, Basket!ReadsAreCovered, Basket!InFlight,
            Basket!Statements, Basket!Answers, Basket!inputVars
<1>1. ASSUME NEW p \in CartProducts, Basket!RemoveProduct(p) PROVE Basket!CartInv'
  BY <1>1 DEF Basket!RemoveProduct
<1>2. ASSUME NEW p \in CartProducts, NEW n \in StockLevels, Basket!SetStock(p, n)
      PROVE  Basket!CartInv'
  <2>1. n \in Nat
    BY CartAssumption
  <2>2. \A r \in Basket!CartRequests : best'[r] \in Nat /\ best[r] <= best'[r]
    BY <1>2, <2>1 DEF Basket!SetStock
  <2>3. \A r \in Basket!CartRequests : Basket!InFlight(r) => stock'[item[r]] <= best'[r]
    BY <1>2, <2>1 DEF Basket!SetStock
  <2> QED BY <1>2, <2>1, <2>2, <2>3 DEF Basket!SetStock
<1>3. ASSUME Basket!BuyCart PROVE Basket!CartInv'
  <2>1. \A p \in CartProducts : stock'[p] \in Nat /\ stock'[p] <= stock[p]
    BY <1>3 DEF Basket!BuyCart
  <2> QED BY <1>3, <2>1 DEF Basket!BuyCart
<1> QED BY <1>1, <1>2, <1>3

LEMMA CartStep ==
    ASSUME Basket!CartInv, [Basket!Next]_Basket!vars PROVE Basket!CartInv'
<1>1. CASE UNCHANGED Basket!vars
  BY <1>1 DEF Basket!vars, Basket!shopVars, Basket!inputVars, Basket!CartInv, Basket!TypeOK,
              Basket!ReadsAreCovered, Basket!InFlight
<1>2. CASE Basket!Next
  BY <1>2, ReadingKeepsCartInv, WritingKeepsCartInv, ShopKeepsCartInv
     DEF Basket!Next, Basket!Serve
<1> QED BY <1>1, <1>2

\* A request in flight keeps its sum, if its customer waits for the answer.
LEMMA OneAtATimeStep ==
    ASSUME Basket!CartInv, Basket!OneAtATime, [Basket!Next]_Basket!vars PROVE Basket!OneAtATime'
<1> DEFINE pc == s4
<1> USE DEF Basket!CartInv, Basket!TypeOK, Basket!OneAtATime, Basket!InFlight,
            Basket!Statements, Basket!Answers, Basket!shopVars, Basket!inputVars,
            Basket!CartRequests, Basket!Waits
<1>1. ASSUME NEW r \in Basket!CartRequests, Basket!Receive(r) PROVE Basket!OneAtATime'
  BY <1>1 DEF Basket!Receive, Basket!FirstStatement
<1>2. ASSUME NEW r \in Basket!CartRequests,
             \/ Basket!AddFindProduct(r) \/ Basket!UpsertSelect(r)
             \/ Basket!UpdateFindProduct(r)
      PROVE  Basket!OneAtATime'
  BY <1>2, CartAssumption DEF Basket!AddFindProduct, Basket!UpsertSelect,
                              Basket!UpdateFindProduct
<1>3. ASSUME NEW r \in Basket!CartRequests, Basket!AddFindItem(r) PROVE Basket!OneAtATime'
  BY <1>3 DEF Basket!AddFindItem, Basket!Desired
<1>4. ASSUME NEW r \in Basket!CartRequests,
             Basket!UpsertInsert(r) \/ Basket!WriteRow(r) \/ Basket!DeleteRow(r)
      PROVE  Basket!OneAtATime'
  <2>1. /\ Basket!InFlight(r) /\ ~Basket!InFlight(r)'
        /\ \A q \in Basket!CartRequests \ {r} : pc'[q] = pc[q]
        /\ s9' = s9
    BY <1>4 DEF Basket!UpsertInsert, Basket!WriteRow, Basket!DeleteRow
  <2>2. s9' => \A q \in Basket!CartRequests : ~Basket!InFlight(q)'
    BY <2>1
  <2> QED BY <2>2
<1>5. ASSUME NEW p \in CartProducts, Basket!RemoveProduct(p) PROVE Basket!OneAtATime'
  BY <1>5 DEF Basket!RemoveProduct
<1>6. ASSUME NEW p \in CartProducts, NEW n \in StockLevels, Basket!SetStock(p, n)
      PROVE  Basket!OneAtATime'
  BY <1>6 DEF Basket!SetStock
<1>7. ASSUME Basket!BuyCart PROVE Basket!OneAtATime'
  BY <1>7 DEF Basket!BuyCart
<1>8. CASE UNCHANGED Basket!vars
  BY <1>8 DEF Basket!vars
<1> QED BY <1>1, <1>2, <1>3, <1>4, <1>5, <1>6, <1>7, <1>8 DEF Basket!Next, Basket!Serve

\* The inductive invariant of the cart (cart.service.ts:14-33).
THEOREM CartInvHolds == Spec => [](part = "cart" => Basket!CartInv /\ Basket!OneAtATime)
<1>1. Init => (part = "cart" => Basket!CartInv /\ Basket!OneAtATime)
  BY BasketStarts, CartInit
<1>2. (part = "cart" => Basket!CartInv /\ Basket!OneAtATime) /\ [Next]_slots
         => (part = "cart" => Basket!CartInv /\ Basket!OneAtATime)'
  <2>1. [Next]_slots => part' = part
    BY DEF Next, slots
  <2> QED BY <2>1, BasketSteps, CartStep, OneAtATimeStep
<1> QED BY <1>1, <1>2, PTL DEF Spec

\* With all overlaps and moving stocks, a quantity that is written was in
\* stock at some moment of its request.
LEMMA QuantitiesWereInStock ==
    ASSUME Basket!CartInv, [Basket!Next]_Basket!vars PROVE Basket!WritesWhatWasInStock
<1> DEFINE row == s3  pc == s4  item == s5  read == s7  desired == s8  best == s10
<1> SUFFICES ASSUME NEW r \in Adds \cup Updates, pc[r] # "ok", pc'[r] = "ok"
             PROVE  row'[item[r]] <= best[r]
  BY DEF Basket!WritesWhatWasInStock
<1>0. Basket!Next
  BY DEF Basket!vars
<1> USE DEF Basket!CartInv, Basket!TypeOK, Basket!ReadsAreCovered, Basket!CartRequests
<1>1. ASSUME NEW q \in Basket!CartRequests,
             \/ Basket!Receive(q) \/ Basket!AddFindProduct(q) \/ Basket!AddFindItem(q)
             \/ Basket!UpsertSelect(q) \/ Basket!UpdateFindProduct(q)
      PROVE  FALSE
  BY <1>1 DEF Basket!Receive, Basket!FirstStatement, Basket!AddFindProduct,
              Basket!AddFindItem, Basket!UpsertSelect, Basket!UpdateFindProduct
<1>2. ASSUME NEW q \in Basket!CartRequests, Basket!UpsertInsert(q) \/ Basket!WriteRow(q)
      PROVE  row'[item[r]] <= best[r]
  <2>1. q = r /\ row'[item[r]] = desired[r] /\ pc[r] \in {"insert", "update"}
    BY <1>2 DEF Basket!UpsertInsert, Basket!WriteRow
  <2>2. desired[r] <= read[r] /\ read[r] <= best[r]
    BY <2>1
  <2>3. desired[r] \in Nat /\ read[r] \in Nat /\ best[r] \in Nat
    OBVIOUS
  <2> QED BY <2>1, <2>2, <2>3
<1>3. ASSUME NEW q \in Basket!CartRequests, Basket!DeleteRow(q) PROVE row'[item[r]] <= best[r]
  BY <1>3 DEF Basket!DeleteRow
<1>4. ASSUME \/ \E p \in CartProducts :
                   Basket!RemoveProduct(p) \/ \E n \in StockLevels : Basket!SetStock(p, n)
             \/ Basket!BuyCart
      PROVE  FALSE
  BY <1>4 DEF Basket!RemoveProduct, Basket!SetStock, Basket!BuyCart
<1> QED BY <1>0, <1>1, <1>2, <1>3, <1>4 DEF Basket!Next, Basket!Serve

\* An add of a customer who waits for every answer puts its quantity on top of
\* the row, or is refused.
LEMMA AddsOfAPatientCustomer ==
    ASSUME Basket!CartInv, Basket!OneAtATime, [Basket!Next]_Basket!vars
    PROVE  Basket!AddAddsItsQuantity
<1> DEFINE catalog == s1  row == s3  pc == s4  item == s5  qty == s6  desired == s8
<1> SUFFICES ASSUME s9, NEW r \in Adds, pc[r] # "ok", pc'[r] = "ok"
             PROVE  row'[item[r]] = row[item[r]] + qty[r]
  BY DEF Basket!AddAddsItsQuantity
<1>0. Basket!Next
  BY DEF Basket!vars
<1> USE DEF Basket!CartInv, Basket!TypeOK, Basket!ReadsAreCovered, Basket!OneAtATime,
            Basket!CartRequests
<1>1. ASSUME NEW q \in Basket!CartRequests,
             \/ Basket!Receive(q) \/ Basket!AddFindProduct(q) \/ Basket!AddFindItem(q)
             \/ Basket!UpsertSelect(q) \/ Basket!UpdateFindProduct(q)
      PROVE  FALSE
  BY <1>1 DEF Basket!Receive, Basket!FirstStatement, Basket!AddFindProduct,
              Basket!AddFindItem, Basket!UpsertSelect, Basket!UpdateFindProduct
<1>2. ASSUME NEW q \in Basket!CartRequests, Basket!UpsertInsert(q) \/ Basket!WriteRow(q)
      PROVE  row'[item[r]] = row[item[r]] + qty[r]
  <2>1. q = r /\ row'[item[r]] = desired[r] /\ pc[r] \in {"insert", "update"}
    BY <1>2 DEF Basket!UpsertInsert, Basket!WriteRow
  <2>2. item[r] \in catalog
    BY <1>2, <2>1 DEF Basket!UpsertInsert, Basket!WriteRow
  <2> QED BY <2>1, <2>2
<1>3. ASSUME NEW q \in Basket!CartRequests, Basket!DeleteRow(q), q = r PROVE FALSE
  BY <1>3, CartAssumption DEF Basket!DeleteRow
<1>4. ASSUME NEW q \in Basket!CartRequests, Basket!DeleteRow(q), q # r PROVE FALSE
  BY <1>4 DEF Basket!DeleteRow
<1>5. ASSUME \/ \E p \in CartProducts :
                   Basket!RemoveProduct(p) \/ \E n \in StockLevels : Basket!SetStock(p, n)
             \/ Basket!BuyCart
      PROVE  FALSE
  BY <1>5 DEF Basket!RemoveProduct, Basket!SetStock, Basket!BuyCart
<1> QED BY <1>0, <1>1, <1>2, <1>3, <1>4, <1>5 DEF Basket!Next, Basket!Serve

\* However stocks move and requests overlap, a quantity that is written was in
\* stock at some moment of its request; and an add of a customer who waits goes on
\* top of what the row held (cart.service.ts:12-37).
THEOREM CartIsWrittenAsMeant == Spec => CartWritesStand
<1>1. (part = "cart" => Basket!CartInv /\ Basket!OneAtATime) /\ [Next]_slots
         => [part = "cart" => Basket!WritesWhatWasInStock /\ Basket!AddAddsItsQuantity]_slots
  BY BasketSteps, QuantitiesWereInStock, AddsOfAPatientCustomer
<1> QED BY <1>1, CartInvHolds, PTL DEF Spec, CartWritesStand

-----------------------------------------------------------------------------
(* useCart and the cart page *)

LEMMA CartPageStarts ==
    ASSUME Init, part = "cart page" PROVE CartPage!Init
BY DEF Init

LEMMA CartPageSteps ==
    ASSUME [Next]_slots, part = "cart page"
    PROVE  part' = "cart page" /\ [CartPage!Next]_CartPage!vars
BY DEF Next, slots, CartPage!vars, CartPage!queryVars

\* What the updaters make of a cart is a cart, and a cart in stock stays so when
\* the controller accepts the operation.
LEMMA UpdatersKeepCarts ==
    ASSUME NEW o \in CartPage!Ops, NEW c \in CartPage!Carts
    PROVE  CartPage!Updated(c, o) \in CartPage!Carts
<1> USE DEF CartPage!Updated, CartPage!Carts
<1>1. /\ o.kind \in {"add", "update", "remove"} /\ o.item \in Products /\ o.qty \in Nat
      /\ c[o.item] \in Nat
  BY DEF CartPage!Ops
<1>2. CASE o.kind = "add"
  BY <1>1, <1>2
<1>3. CASE o.kind = "update"
  BY <1>1, <1>3
<1>4. CASE o.kind = "remove"
  BY <1>1, <1>4
<1> QED BY <1>1, <1>2, <1>3, <1>4

LEMMA AcceptedStaysInStock ==
    ASSUME s1 \in [Products -> 0 .. Stock], NEW o \in CartPage!Ops, CartPage!Accepts(o)
    PROVE  CartPage!Updated(s1, o) \in [Products -> 0 .. Stock]
<1> DEFINE server == s1
<1> USE BoundsAssumption DEF CartPage!Updated, CartPage!Accepts
<1>1. /\ o.kind \in {"add", "update", "remove"} /\ o.item \in Products /\ o.qty \in Nat
      /\ server[o.item] \in 0 .. Stock
  BY DEF CartPage!Ops
<1>2. CASE o.kind = "add"
  BY <1>1, <1>2
<1>3. CASE o.kind = "update"
  BY <1>1, <1>3
<1>4. CASE o.kind = "remove"
  BY <1>1, <1>4
<1> QED BY <1>1, <1>2, <1>3, <1>4

\* The controls ask for what the controller understands.
LEMMA ControlsAreOps ==
    ASSUME s2 = CartPage!Missing \/ s2 \in CartPage!Carts
    PROVE  CartPage!Controls \subseteq CartPage!Ops
<1> DEFINE cache == s2
<1>1. \A p \in CartPage!Rows : p \in Products /\ cache[p] \in Nat
  BY DEF CartPage!Rows, CartPage!Carts
<1>2. \A p \in CartPage!Rows : cache[p] > 1 => cache[p] - 1 \in Nat
  BY <1>1
<1> QED BY <1>1, <1>2 DEF CartPage!Controls, CartPage!Ops

LEMMA QueryInit ==
    ASSUME CartPage!Init PROVE CartPage!QueryInv
<1> USE BoundsAssumption, ProductsAssumption
    DEF CartPage!Init, CartPage!InFlight, CartPage!Retries
<1>1. CartPage!TypeOK
  <2>1. s1 \in [Products -> 0 .. Stock] /\ s5 \in [Products -> 0 .. Stock]
    <3>1. 0 .. 1 \subseteq 0 .. Stock
      OBVIOUS
    <3> QED BY <3>1 DEF CartPage!Empty
  <2>2. /\ s7 \in [Clicks -> {"idle", "sent", "accepted", "refused", "settled"}]
        /\ \A m \in Clicks : s8[m] = CartPage!NoOp <=> ~CartPage!InFlight(m)
    OBVIOUS
  <2>3. /\ s2 = CartPage!Missing
        /\ s4 \in {"none", "sent", "answered"} /\ s6 \in 0 .. CartPage!Retries + 1
        /\ s11 \in 0 .. MaxCartFailures
    OBVIOUS
  <2>4. s3 \in BOOLEAN /\ s10 \in BOOLEAN
    OBVIOUS
  <2> QED BY <2>1, <2>2, <2>3, <2>4, Zenon DEF CartPage!TypeOK
<1>2. CartPage!Snapshots /\ CartPage!Fresh /\ CartPage!OneClick
  BY DEF CartPage!Snapshots, CartPage!Fresh, CartPage!OneClick
<1> QED BY <1>1, <1>2 DEF CartPage!QueryInv

\* A click shows its outcome at once.
LEMMA ClickKeepsQueryInv ==
    ASSUME CartPage!QueryInv, UNCHANGED s10,
           NEW m \in Clicks, NEW o \in CartPage!Controls, CartPage!Click(m, o)
    PROVE  CartPage!QueryInv'
<1> DEFINE cache == s2  fetch == s4  call == s7  op == s8  previous == s9  patient == s10
<1> USE DEF CartPage!QueryInv, CartPage!InFlight, CartPage!Click, CartPage!CancelQueries
<1>1. o \in CartPage!Ops /\ (cache = CartPage!Missing \/ cache \in CartPage!Carts)
  BY ControlsAreOps DEF CartPage!TypeOK, CartPage!Carts
<1>2. CartPage!Empty \in CartPage!Carts /\ CartPage!Empty \in [Products -> 0 .. Stock]
  BY BoundsAssumption DEF CartPage!Empty, CartPage!Carts
<1>3. cache' \in CartPage!Carts
  BY <1>1, <1>2, UpdatersKeepCarts
<1>4. CartPage!Snapshots'
  BY <1>1 DEF CartPage!Snapshots
<1>5. o # CartPage!NoOp
  BY <1>1 DEF CartPage!NoOp, CartPage!Ops
<1>6. call' = [call EXCEPT ![m] = "sent"] /\ op' = [op EXCEPT ![m] = o]
  OBVIOUS
<1>7. CartPage!TypeOK'
  <2>1. \A n \in Clicks : op'[n] = CartPage!NoOp <=> ~CartPage!InFlight(n)'
    BY <1>5, <1>6 DEF CartPage!TypeOK, CartPage!Snapshots
  <2>2. call' \in [Clicks -> {"idle", "sent", "accepted", "refused", "settled"}]
    BY <1>6 DEF CartPage!TypeOK
  <2>3. UNCHANGED <<s1, s11>> /\ s3' = FALSE /\ fetch' = "none" /\ s6' = 0
        /\ s5' = CartPage!Empty
    OBVIOUS
  <2>4. s3' \in BOOLEAN /\ s10' \in BOOLEAN
    BY <2>3 DEF CartPage!TypeOK
  <2>5. s6' \in 0 .. CartPage!Retries + 1 /\ s11' \in 0 .. MaxCartFailures
    BY <2>3 DEF CartPage!TypeOK, CartPage!Retries
  <2> QED BY ONLY CartPage!TypeOK, <1>2, <1>3, <2>1, <2>2, <2>3, <2>4, <2>5, Zenon
          DEF CartPage!TypeOK, CartPage!Carts
<1>8. ~CartPage!Quiet'
  BY <1>6 DEF CartPage!Quiet, CartPage!TypeOK
<1>9. CartPage!OneClick'
  BY <1>6 DEF CartPage!OneClick, CartPage!Quiet, CartPage!TypeOK
<1> QED BY <1>4, <1>7, <1>8, <1>9 DEF CartPage!Fresh

\* The controller, or the connection, answers.
LEMMA AnswerKeepsQueryInv ==
    ASSUME CartPage!QueryInv, UNCHANGED s10, NEW m \in Clicks,
           CartPage!Serve(m) \/ CartPage!Lose(m)
    PROVE  CartPage!QueryInv'
<1> DEFINE server == s1  call == s7  op == s8
<1> USE DEF CartPage!QueryInv, CartPage!InFlight, CartPage!queryVars
<1>1. CartPage!InFlight(m) /\ op[m] \in CartPage!Ops
  BY DEF CartPage!TypeOK, CartPage!Snapshots, CartPage!Serve, CartPage!Lose
<1>2. server' \in [Products -> 0 .. Stock]
  BY <1>1, AcceptedStaysInStock DEF CartPage!TypeOK, CartPage!Serve, CartPage!Lose
<1>3. PICK a \in {"accepted", "refused"} : call' = [call EXCEPT ![m] = a]
  BY DEF CartPage!Serve, CartPage!Lose
<1>4. \A n \in Clicks : CartPage!InFlight(n)' <=> CartPage!InFlight(n)
  BY <1>1, <1>3 DEF CartPage!TypeOK
<1>5. /\ UNCHANGED <<s2, s3, s4, s5, s6, s8, s9>>
      /\ s11' \in 0 .. MaxCartFailures
  BY BoundsAssumption DEF CartPage!TypeOK, CartPage!Serve, CartPage!Lose
<1>6. CartPage!TypeOK'
  <2>1. call' \in [Clicks -> {"idle", "sent", "accepted", "refused", "settled"}]
    BY <1>3 DEF CartPage!TypeOK
  <2> QED BY <1>2, <1>4, <1>5, <2>1 DEF CartPage!TypeOK
<1>7. ~CartPage!Quiet'
  BY <1>1, <1>4 DEF CartPage!Quiet
<1>8. CartPage!Snapshots' /\ CartPage!OneClick'
  BY <1>4, <1>5 DEF CartPage!Snapshots, CartPage!OneClick
<1> QED BY <1>6, <1>7, <1>8 DEF CartPage!Fresh

\* The mutation settles: its snapshot comes back if it failed, and the cart is
\* fetched.
LEMMA SettleKeepsQueryInv ==
    ASSUME CartPage!QueryInv, UNCHANGED s10, NEW m \in Clicks, CartPage!Settle(m)
    PROVE  CartPage!QueryInv'
<1> DEFINE cache == s2  call == s7  op == s8  previous == s9  patient == s10
<1> USE DEF CartPage!QueryInv, CartPage!InFlight, CartPage!Settle, CartPage!Invalidate
<1>1. /\ call' = [call EXCEPT ![m] = "settled"] /\ op' = [op EXCEPT ![m] = CartPage!NoOp]
      /\ CartPage!InFlight(m)
  OBVIOUS
<1>2. /\ ~CartPage!InFlight(m)'
      /\ \A n \in Clicks \ {m} : CartPage!InFlight(n)' <=> CartPage!InFlight(n)
  BY <1>1 DEF CartPage!TypeOK
<1>3. cache' = CartPage!Missing \/ cache' \in CartPage!Carts
  BY DEF CartPage!RolledBack, CartPage!TypeOK, CartPage!Snapshots, CartPage!Carts
<1>4. CartPage!Empty \in [Products -> 0 .. Stock]
  BY BoundsAssumption DEF CartPage!Empty
<1>5. CartPage!TypeOK'
  <2>1. \A n \in Clicks : op'[n] = CartPage!NoOp <=> ~CartPage!InFlight(n)'
    BY <1>1, <1>2 DEF CartPage!TypeOK, CartPage!Snapshots
  <2> QED BY <1>1, <1>3, <1>4, <2>1 DEF CartPage!TypeOK, CartPage!Carts, CartPage!Retries
<1>6. CartPage!Snapshots'
  BY <1>1 DEF CartPage!Snapshots
<1>7. CartPage!Fresh'
  BY DEF CartPage!Fresh
<1>8. CartPage!OneClick'
  BY <1>1, <1>2 DEF CartPage!OneClick
<1> QED BY <1>5, <1>6, <1>7, <1>8

\* The query: its fetch is served, answered, fails, or starts anew.
LEMMA FetchKeepsQueryInv ==
    ASSUME CartPage!QueryInv, UNCHANGED s10,
           \/ CartPage!FetchServed \/ CartPage!FetchAnswered
           \/ CartPage!FetchFails \/ CartPage!ComeBack
    PROVE  CartPage!QueryInv'
<1> DEFINE server == s1  call == s7
<1> USE DEF CartPage!QueryInv, CartPage!FetchServed, CartPage!FetchAnswered,
            CartPage!FetchFails, CartPage!ComeBack
<1>1. /\ UNCHANGED <<s1, s7, s8, s9>>
      /\ \A m \in Clicks : CartPage!InFlight(m)' <=> CartPage!InFlight(m)
  BY DEF CartPage!InFlight
<1>2. CartPage!Empty \in [Products -> 0 .. Stock]
  BY BoundsAssumption DEF CartPage!Empty
<1>3. CartPage!TypeOK'
  <2>1. s11' \in 0 .. MaxCartFailures /\ s6' \in 0 .. CartPage!Retries + 1
    BY BoundsAssumption DEF CartPage!TypeOK, CartPage!Retries
  <2>2. \A c \in [Products -> 0 .. Stock] : c \in [Products -> Nat]
    BY BoundsAssumption
  <2> QED BY <1>1, <1>2, <2>1, <2>2 DEF CartPage!TypeOK
<1>4. CartPage!Snapshots'
  BY <1>1 DEF CartPage!Snapshots
<1>5. CartPage!Fresh'
  BY <1>1 DEF CartPage!Fresh, CartPage!Quiet
<1>6. CartPage!OneClick'
  BY <1>1 DEF CartPage!OneClick
<1> QED BY <1>3, <1>4, <1>5, <1>6

LEMMA QueryStep ==
    ASSUME CartPage!QueryInv, [CartPage!Next]_CartPage!vars PROVE CartPage!QueryInv'
<1>1. CASE UNCHANGED CartPage!vars
  <2>1. UNCHANGED <<s1, s2, s3, s4, s5, s6, s7, s8, s9, s10, s11>>
    BY <1>1 DEF CartPage!vars, CartPage!queryVars
  <2> QED BY <2>1 DEF CartPage!QueryInv, CartPage!TypeOK, CartPage!Snapshots,
             CartPage!Fresh, CartPage!OneClick, CartPage!InFlight, CartPage!Quiet
<1>2. CASE CartPage!Next
  BY <1>2, ClickKeepsQueryInv, AnswerKeepsQueryInv, SettleKeepsQueryInv, FetchKeepsQueryInv
     DEF CartPage!Next, CartPage!Step, CartPage!Answering, CartPage!Fetching
<1> QED BY <1>1, <1>2

\* The inductive invariant of the query "cart" (useCart.ts:17-103).
THEOREM QueryInvHolds == Spec => [](part = "cart page" => CartPage!QueryInv)
<1>1. Init => (part = "cart page" => CartPage!QueryInv)
  BY CartPageStarts, QueryInit
<1>2. (part = "cart page" => CartPage!QueryInv) /\ [Next]_slots
         => (part = "cart page" => CartPage!QueryInv)'
  <2>1. [Next]_slots => part' = part
    BY DEF Next, slots
  <2> QED BY <2>1, CartPageSteps, QueryStep
<1> QED BY <1>1, <1>2, PTL DEF Spec

\* However mutations overlap, fail and roll back to snapshots older than another's
\* success, the page that has nothing in flight and nothing to fetch shows the
\* server's cart (useCart.ts:28-39).
THEOREM PageShowsServersCart == Spec => []SettledShowsServer
<1>1. (part = "cart page" => CartPage!QueryInv) => SettledShowsServer
  BY DEF SettledShowsServer, CartPage!SettledShowsServer, CartPage!QueryInv, CartPage!Fresh
<1> QED BY <1>1, QueryInvHolds, PTL

\* Only an answer of an older fetch, another click, or another answer could change
\* what a click shows: none of them is due while a patient visitor waits.
LEMMA ClicksAreNotOverwritten ==
    ASSUME CartPage!QueryInv, [CartPage!Next]_CartPage!vars PROVE CartPage!NoFlicker
<1> DEFINE cache == s2  fetch == s4  call == s7
<1> SUFFICES ASSUME s10, NEW m \in Clicks, CartPage!InFlight(m), CartPage!InFlight(m)'
             PROVE  cache' = cache
  BY DEF CartPage!NoFlicker
<1>0. fetch = "none" /\ \A n \in Clicks : CartPage!InFlight(n) => n = m
  BY DEF CartPage!QueryInv, CartPage!OneClick
<1>1. ASSUME NEW n \in Clicks, NEW o \in CartPage!Controls, CartPage!Click(n, o) PROVE FALSE
  BY <1>1 DEF CartPage!Click, CartPage!Quiet
<1>2. ASSUME NEW n \in Clicks, CartPage!Serve(n) \/ CartPage!Lose(n) PROVE cache' = cache
  BY <1>2 DEF CartPage!Serve, CartPage!Lose, CartPage!queryVars
<1>3. ASSUME NEW n \in Clicks, CartPage!Settle(n) PROVE FALSE
  <2>1. n = m
    BY <1>0, <1>3 DEF CartPage!Settle, CartPage!InFlight
  <2> QED BY <1>3, <2>1 DEF CartPage!Settle, CartPage!InFlight, CartPage!QueryInv,
                            CartPage!TypeOK
<1>4. ASSUME \/ CartPage!FetchServed \/ CartPage!FetchAnswered
             \/ CartPage!FetchFails \/ CartPage!ComeBack
      PROVE  cache' = cache
  BY <1>0, <1>4 DEF CartPage!FetchServed, CartPage!FetchAnswered, CartPage!FetchFails,
                    CartPage!ComeBack
<1>5. CASE UNCHANGED CartPage!vars
  BY <1>5 DEF CartPage!vars, CartPage!queryVars
<1> QED BY <1>1, <1>2, <1>3, <1>4, <1>5
        DEF CartPage!Next, CartPage!Step, CartPage!Answering, CartPage!Fetching

\* While a click of a visitor who waits is not answered, the page keeps showing
\* its outcome (useCart.ts:28).
THEOREM ClicksDoNotFlicker == Spec => NoFlicker
<1>1. (part = "cart page" => CartPage!QueryInv) /\ [Next]_slots
         => [part = "cart page" => CartPage!NoFlicker]_slots
  BY CartPageSteps, ClicksAreNotOverwritten
<1> QED BY <1>1, QueryInvHolds, PTL DEF Spec, NoFlicker

-----------------------------------------------------------------------------
(* Checkout and the order history *)

LEMMA CheckoutStarts ==
    ASSUME Init, part = "checkout" PROVE Checkout!Init
BY DEF Init

LEMMA CheckoutSteps ==
    ASSUME [Next]_slots, part = "checkout"
    PROVE  part' = "checkout" /\ [Checkout!Next]_Checkout!vars
BY DEF Next, slots, Checkout!vars, Checkout!shopVars, Checkout!pageVars, Checkout!queryVars,
       Checkout!requestVars, Checkout!boundVars

\* The instance counts as FiniteSets does; and its rows are products.
LEMMA RowsCount ==
    /\ \A S : Checkout!Cardinality(S) = Cardinality(S)
    /\ Checkout!Rows \subseteq CartProducts
    /\ \A S \in SUBSET CartProducts : IsFiniteSet(S) /\ Cardinality(S) \in Nat
<1>1. \A S : Checkout!Cardinality(S) = Cardinality(S)
  BY DEF Checkout!Cardinality, Cardinality
<1>2. Checkout!Rows \subseteq CartProducts
  BY DEF Checkout!Rows
<1> QED BY <1>1, <1>2, ProductsAssumption, FS_Subset, FS_CardinalityType

\* A sequence is one of what it holds.
LEMMA SequenceOfItsElements ==
    ASSUME NEW S, NEW t \in Seq(S) PROVE Checkout!IsSequence(t)
<1> DEFINE T == {t[i] : i \in DOMAIN t}
<1>1. \A i \in 1 .. Len(t) : t[i] \in T
  OBVIOUS
<1>2. t = [i \in 1 .. Len(t) |-> t[i]] /\ Len(t) \in Nat
  OBVIOUS
<1>3. [i \in 1 .. Len(t) |-> t[i]] \in Seq(T)
  BY <1>1, <1>2
<1> QED BY <1>2, <1>3 DEF Checkout!IsSequence

\* The orders placed so far stay when another is.
LEMMA OrdersGrow ==
    ASSUME NEW s, Checkout!IsSequence(s), NEW e, NEW t, t = Append(s, e)
    PROVE  /\ Checkout!IsSequence(t)
           /\ Len(s) \in Nat /\ Len(t) = Len(s) + 1
           /\ DOMAIN s = 1 .. Len(s) /\ DOMAIN t = 1 .. Len(s) + 1
           /\ \A i \in DOMAIN s : t[i] = s[i]
           /\ t[Len(s) + 1] = e
<1> DEFINE S == {s[i] : i \in DOMAIN s} \cup {e}
<1>1. s \in Seq(S)
  BY SeqMonotonic DEF Checkout!IsSequence
<1>2. /\ t \in Seq(S) /\ Len(s) \in Nat /\ Len(t) = Len(s) + 1
      /\ DOMAIN s = 1 .. Len(s) /\ DOMAIN t = 1 .. Len(s) + 1
      /\ \A i \in DOMAIN s : t[i] = s[i]
      /\ t[Len(s) + 1] = e
  BY <1>1
<1> QED BY <1>2, SequenceOfItsElements

LEMMA CheckoutInit ==
    ASSUME Checkout!Init PROVE Checkout!CheckoutInv
<1> USE DEF Checkout!Init, Checkout!Idle, Checkout!NoLines, Checkout!NoRequest
<1>1. Checkout!ShopTypes /\ Checkout!PageTypes /\ Checkout!QueryTypes
  <2>1. Checkout!IsSequence(s3) /\ Len(s3) = 0
    BY DEF Checkout!IsSequence
  <2>2. s12 \in BOOLEAN /\ s15 \in BOOLEAN /\ s16 \in BOOLEAN
    OBVIOUS
  <2>3. {MaxFills, MaxChanges, MaxFailures} \subseteq Nat
    BY BoundsAssumption
  <2> QED BY <2>1, <2>2, <2>3
          DEF Checkout!ShopTypes, Checkout!PageTypes, Checkout!QueryTypes
<1>2. Checkout!RequestTypes
  BY DEF Checkout!RequestTypes, Checkout!Phases, Checkout!Lines
<1>3. Checkout!OneCheckout
  <2>1. Checkout!Rows = {}
    BY DEF Checkout!Rows
  <2> QED BY <2>1, RowsCount, FS_EmptySet DEF Checkout!OneCheckout
<1>4. Checkout!Quoted
  BY DEF Checkout!Quoted
<1>5. Checkout!ChargedAsListed /\ Checkout!Listed
  BY DEF Checkout!ChargedAsListed, Checkout!Listed
<1> QED BY <1>1, <1>2, <1>3, <1>4, <1>5 DEF Checkout!CheckoutInv, Checkout!TypeOK

\* The visitor moves between the pages; the history is kept up to date.
Browsing ==
    \/ \E p \in {"checkout", "profile", "other"} : Checkout!Visit(p)
    \/ Checkout!CartFetched
    \/ \E f \in {"incomplete", "malformed", "valid"} : Checkout!Type(f)
Refreshing ==
    \/ Checkout!HistoryServed \/ Checkout!HistoryAnswered
    \/ Checkout!HistoryFails \/ Checkout!HistoryAges \/ Checkout!HistoryDropped

\* Orders are appended, carts are filled within the bound.
LEMMA ShopTypesStep ==
    ASSUME Checkout!TypeOK, Checkout!Next PROVE Checkout!ShopTypes'
<1> DEFINE cart == s1  orders == s3
<1> USE BoundsAssumption DEF Checkout!TypeOK, Checkout!ShopTypes,
        Checkout!shopVars, Checkout!boundVars
<1>1. ASSUME NEW r \in Requests, Checkout!PlaceOrder(r) PROVE Checkout!ShopTypes'
  <2>1. PICK e : orders' = Append(orders, e)
    BY <1>1 DEF Checkout!PlaceOrder
  <2>2. Checkout!IsSequence(orders')
    BY <2>1, OrdersGrow
  <2>3. cart' \in [CartProducts -> 0 .. s17]
    BY <1>1 DEF Checkout!PlaceOrder
  <2> QED BY <1>1, <2>2, <2>3 DEF Checkout!PlaceOrder
<1>2. ASSUME NEW p \in CartProducts, Checkout!Fill(p) PROVE Checkout!ShopTypes'
  BY <1>2 DEF Checkout!Fill
<1>3. ASSUME NEW p \in CartProducts, NEW n \in Prices, Checkout!ChangePrice(p, n)
      PROVE  Checkout!ShopTypes'
  BY <1>3 DEF Checkout!ChangePrice
<1>4. CASE Browsing \/ Refreshing
  <2>1. UNCHANGED <<s1, s2, s3, s17, s18>> /\ s19' \in 0 .. MaxFailures
    BY <1>4 DEF Browsing, Refreshing, Checkout!Visit, Checkout!CartFetched, Checkout!Type,
       Checkout!HistoryServed, Checkout!HistoryAnswered, Checkout!HistoryFails,
       Checkout!HistoryAges, Checkout!HistoryDropped
  <2> QED BY <2>1
<1>5. ASSUME NEW r \in Requests,
             \/ Checkout!Submit(r) \/ Checkout!ReadCart(r) \/ Checkout!Reject(r)
             \/ Checkout!Succeeds(r) \/ Checkout!Refused(r)
             \/ Checkout!Lost(r) \/ Checkout!Breaks(r)
      PROVE  Checkout!ShopTypes'
  <2>1. UNCHANGED <<s1, s2, s3, s17, s18>> /\ s19' \in 0 .. MaxFailures
    BY <1>5 DEF Checkout!Submit, Checkout!ReadCart, Checkout!Reject, Checkout!Succeeds,
       Checkout!Refused, Checkout!Lost, Checkout!Breaks, Checkout!Answered
  <2> QED BY <2>1
<1> QED BY <1>1, <1>2, <1>3, <1>4, <1>5 DEF Checkout!Next, Browsing, Refreshing

\* A page waits for a checkout that somebody will answer.
LEMMA RequestTypesStep ==
    ASSUME Checkout!TypeOK, Checkout!Next PROVE Checkout!RequestTypes'
<1> DEFINE request == s7  quoted == s8  pending == s9
           Request == [phase : Checkout!Phases, lines : Checkout!Lines]
<1> USE DEF Checkout!TypeOK, Checkout!RequestTypes, Checkout!Phases, Checkout!NoRequest,
            Checkout!requestVars, Checkout!pageVars
<1>0. Checkout!Idle \in Request
  BY DEF Checkout!Idle, Checkout!NoLines, Checkout!Lines
<1>1. ASSUME NEW r \in Requests, Checkout!Submit(r) PROVE Checkout!RequestTypes'
  <2>1. s4 = "checkout" /\ s4' = s4
    BY <1>1 DEF Checkout!Submit, Checkout!Controls
  <2>2. quoted' \in [Requests -> [CartProducts -> SUBSET Prices]]
    BY <1>1 DEF Checkout!Submit, Checkout!ShopTypes
  <2>3. request' \in [Requests -> Request] /\ request'[r].phase \in {"sent", "refused"}
    BY <1>1 DEF Checkout!Submit, Checkout!WellFormed
  <2> QED BY <1>1, <2>1, <2>2, <2>3 DEF Checkout!Submit
<1>2. ASSUME NEW r \in Requests,
             Checkout!ReadCart(r) \/ Checkout!PlaceOrder(r) \/ Checkout!Reject(r)
      PROVE  Checkout!RequestTypes'
  <2>1. /\ request' \in [Requests -> Request]
        /\ \A q \in Requests \ {r} : request'[q] = request[q]
    <3>1. CASE Checkout!ReadCart(r)
      <4>1. [p \in CartProducts |-> [qty |-> s1[p], price |-> s2[p]]] \in Checkout!Lines
        BY DEF Checkout!Lines, Checkout!ShopTypes
      <4> QED BY <3>1, <4>1 DEF Checkout!ReadCart
    <3>2. CASE Checkout!PlaceOrder(r)
      BY <1>0, <3>2 DEF Checkout!PlaceOrder
    <3>3. CASE Checkout!Reject(r)
      BY <1>0, <3>3 DEF Checkout!Reject
    <3> QED BY <1>2, <3>1, <3>2, <3>3
  <2>2. request[r].phase # "alone" => request'[r].phase \in {"read", "refused", "served"}
    BY <1>2 DEF Checkout!ReadCart, Checkout!PlaceOrder, Checkout!Reject
  <2>3. UNCHANGED <<s4, s8, s9>>
    BY <1>2 DEF Checkout!ReadCart, Checkout!PlaceOrder, Checkout!Reject
  <2> QED BY <2>1, <2>2, <2>3
<1>3. ASSUME NEW r \in Requests,
             \/ Checkout!Succeeds(r) \/ Checkout!Refused(r)
             \/ Checkout!Lost(r) \/ Checkout!Breaks(r)
      PROVE  Checkout!RequestTypes'
  <2>1. /\ request' \in [Requests -> Request]
        /\ \A q \in Requests \ {r} : request'[q] = request[q]
    BY <1>0, <1>3 DEF Checkout!Succeeds, Checkout!Refused, Checkout!Lost, Checkout!Breaks,
       Checkout!Answered
  <2>2. \/ pending = r /\ pending' = "none"
        \/ pending # r /\ pending' = pending /\ s4' = s4
    BY <1>3 DEF Checkout!Succeeds, Checkout!Refused, Checkout!Lost, Checkout!Breaks,
       Checkout!Toast
  <2>3. quoted' = quoted
    BY <1>3 DEF Checkout!Succeeds, Checkout!Refused, Checkout!Lost, Checkout!Breaks,
       Checkout!Answered
  <2> QED BY <2>1, <2>2, <2>3
<1>4. ASSUME NEW p \in CartProducts, NEW n \in Prices, Checkout!ChangePrice(p, n)
      PROVE  Checkout!RequestTypes'
  <2>1. quoted' \in [Requests -> [CartProducts -> SUBSET Prices]]
    BY <1>4 DEF Checkout!ChangePrice
  <2> QED BY <1>4, <2>1 DEF Checkout!ChangePrice
<1>5. ASSUME NEW p \in CartProducts, Checkout!Fill(p) PROVE Checkout!RequestTypes'
  BY <1>5 DEF Checkout!Fill
<1>6. CASE Browsing
  <2>1. UNCHANGED <<s7, s8>> /\ (pending' = "none" \/ UNCHANGED <<s4, s9>>)
    <3>1. ASSUME NEW p \in {"checkout", "profile", "other"}, Checkout!Visit(p)
          PROVE  UNCHANGED <<s7, s8>> /\ pending' = "none"
      BY <3>1 DEF Checkout!Visit
    <3>2. ASSUME NEW f \in {"incomplete", "malformed", "valid"}, Checkout!Type(f)
          PROVE  UNCHANGED <<s4, s7, s8, s9>>
      BY <3>2 DEF Checkout!Type
    <3>3. CASE Checkout!CartFetched
      BY <3>3 DEF Checkout!CartFetched
    <3> QED BY <1>6, <3>1, <3>2, <3>3 DEF Browsing
  <2> QED BY <2>1
<1>7. CASE Refreshing
  BY <1>7 DEF Refreshing, Checkout!HistoryServed, Checkout!HistoryAnswered,
     Checkout!HistoryFails, Checkout!HistoryAges, Checkout!HistoryDropped
<1> QED BY <1>1, <1>2, <1>3, <1>4, <1>5, <1>6, <1>7 DEF Checkout!Next, Browsing, Refreshing

\* The number of the last order is that of an order, and numbers do not expire.
LEMMA PageTypesStep ==
    ASSUME Checkout!TypeOK, Checkout!Next
    PROVE  Checkout!PageTypes' /\ Checkout!QueryTypes'
<1> DEFINE orders == s3  page == s4  form == s5  listed == s6  confirmed == s10
           history == s11  stale == s12  fetch == s13  got == s14  left == s15  unseen == s16
<1> USE DEF Checkout!TypeOK, Checkout!PageTypes, Checkout!QueryTypes,
            Checkout!pageVars, Checkout!queryVars, Checkout!shopVars
<1>0. Len(orders) \in Nat /\ (orders' = orders \/ Len(orders') = Len(orders) + 1)
  <2>1. ASSUME NEW r \in Requests, Checkout!PlaceOrder(r) PROVE Len(orders') = Len(orders) + 1
    <3>1. PICK e : orders' = Append(orders, e)
      BY <2>1 DEF Checkout!PlaceOrder
    <3> QED BY <3>1, OrdersGrow DEF Checkout!ShopTypes
  <2>2. CASE \A r \in Requests : ~Checkout!PlaceOrder(r)
    <3>1. CASE Browsing \/ Refreshing
      BY <3>1 DEF Browsing, Refreshing, Checkout!Visit, Checkout!CartFetched, Checkout!Type,
         Checkout!HistoryServed, Checkout!HistoryAnswered, Checkout!HistoryFails,
         Checkout!HistoryAges, Checkout!HistoryDropped
    <3>2. ASSUME NEW r \in Requests,
                 \/ Checkout!Submit(r) \/ Checkout!ReadCart(r) \/ Checkout!Reject(r)
                 \/ Checkout!Succeeds(r) \/ Checkout!Refused(r)
                 \/ Checkout!Lost(r) \/ Checkout!Breaks(r)
          PROVE  orders' = orders
      BY <3>2 DEF Checkout!Submit, Checkout!ReadCart, Checkout!Reject, Checkout!Succeeds,
         Checkout!Refused, Checkout!Lost, Checkout!Breaks, Checkout!Answered
    <3>3. ASSUME NEW p \in CartProducts,
                 Checkout!Fill(p) \/ \E n \in Prices : Checkout!ChangePrice(p, n)
          PROVE  orders' = orders
      BY <3>3 DEF Checkout!Fill, Checkout!ChangePrice
    <3> QED BY <2>2, <3>1, <3>2, <3>3 DEF Checkout!Next, Browsing, Refreshing
  <2>3. Len(orders) \in Nat
    BY DEF Checkout!ShopTypes, Checkout!IsSequence
  <2> QED BY <2>1, <2>2, <2>3
<1>1. 0 .. Len(orders) \subseteq 0 .. Len(orders') /\ 0 \in 0 .. Len(orders')
      /\ Len(orders) \in 0 .. Len(orders)
  BY <1>0
<1>2. ASSUME NEW r \in Requests, Checkout!Succeeds(r)
      PROVE  Checkout!PageTypes' /\ Checkout!QueryTypes'
  <2>1. /\ page' \in {"checkout", "success", "profile", "other"}
        /\ form' \in {"incomplete", "malformed", "valid"} /\ listed' = listed
        /\ confirmed' \in 0 .. Len(orders) /\ left' = left
    BY <1>1, <1>2 DEF Checkout!Succeeds, Checkout!Invalidate
  <2>2. /\ history' = history /\ got' \in 0 .. Len(orders)
        /\ fetch' \in {"none", "sent", "answered"}
    BY <1>0, <1>2 DEF Checkout!Succeeds, Checkout!Invalidate
  <2>3. stale' \in BOOLEAN /\ unseen' \in BOOLEAN
    <3>1. stale' = TRUE /\ (unseen' = unseen \/ unseen' = (unseen \/ fetch = "answered"))
      BY <1>2 DEF Checkout!Succeeds, Checkout!Invalidate
    <3> QED BY <3>1
  <2> QED BY <1>1, <2>1, <2>2, <2>3
<1>3. ASSUME NEW r \in Requests,
             \/ Checkout!Submit(r) \/ Checkout!ReadCart(r) \/ Checkout!Reject(r)
             \/ Checkout!Refused(r) \/ Checkout!Breaks(r)
      PROVE  Checkout!PageTypes' /\ Checkout!QueryTypes'
  <2>1. UNCHANGED <<s4, s5, s6, s10, s11, s12, s13, s14, s16>> /\ left' \in BOOLEAN
    BY <1>3 DEF Checkout!Submit, Checkout!ReadCart, Checkout!Reject,
       Checkout!Refused, Checkout!Breaks
  <2> QED BY <1>1, <2>1
<1>4. ASSUME NEW r \in Requests, Checkout!PlaceOrder(r) \/ Checkout!Lost(r)
      PROVE  Checkout!PageTypes' /\ Checkout!QueryTypes'
  <2>1. UNCHANGED <<s4, s5, s6, s10, s11, s12, s13, s14, s15>> /\ unseen' \in BOOLEAN
    BY <1>4 DEF Checkout!PlaceOrder, Checkout!Lost
  <2> QED BY <1>1, <2>1
<1>5. ASSUME NEW p \in CartProducts,
             Checkout!Fill(p) \/ \E n \in Prices : Checkout!ChangePrice(p, n)
      PROVE  Checkout!PageTypes' /\ Checkout!QueryTypes'
  BY <1>1, <1>5 DEF Checkout!Fill, Checkout!ChangePrice
<1>6. ASSUME NEW p \in {"checkout", "profile", "other"}, Checkout!Visit(p)
      PROVE  Checkout!PageTypes' /\ Checkout!QueryTypes'
  <2>1. /\ page' = p /\ form' = "incomplete" /\ listed' = listed /\ confirmed' = 0
        /\ UNCHANGED <<s11, s12, s14, s16>>
        /\ fetch' \in {"none", "sent", "answered"}
    BY <1>6 DEF Checkout!Visit
  <2>2. left' \in BOOLEAN
    BY <1>6 DEF Checkout!Visit
  <2> QED BY <1>1, <2>1, <2>2
<1>7. CASE Checkout!CartFetched
  BY <1>1, <1>7, RowsCount DEF Checkout!CartFetched
<1>8. ASSUME NEW f \in {"incomplete", "malformed", "valid"}, Checkout!Type(f)
      PROVE  Checkout!PageTypes' /\ Checkout!QueryTypes'
  BY <1>1, <1>8 DEF Checkout!Type
<1>9. CASE Refreshing
  <2>1. UNCHANGED <<s4, s5, s6, s10, s15>>
    BY <1>9 DEF Refreshing, Checkout!HistoryServed, Checkout!HistoryAnswered,
       Checkout!HistoryFails, Checkout!HistoryAges, Checkout!HistoryDropped
  <2>2. /\ history' \in {Checkout!Missing} \cup 0 .. Len(orders) /\ got' \in 0 .. Len(orders)
        /\ fetch' \in {"none", "sent", "answered"}
    BY <1>0, <1>9 DEF Refreshing, Checkout!HistoryServed, Checkout!HistoryAnswered,
       Checkout!HistoryFails, Checkout!HistoryAges, Checkout!HistoryDropped
  <2>3. stale' \in BOOLEAN /\ unseen' \in BOOLEAN
    BY <1>9 DEF Refreshing, Checkout!HistoryServed, Checkout!HistoryAnswered,
       Checkout!HistoryFails, Checkout!HistoryAges, Checkout!HistoryDropped
  <2> QED BY <1>1, <2>1, <2>2, <2>3
<1> QED BY <1>2, <1>3, <1>4, <1>5, <1>6, <1>7, <1>8, <1>9 DEF Checkout!Next, Refreshing

\* What a checkout reads is listed at prices its products have had since it
\* arrived.
LEMMA QuotedStep ==
    ASSUME Checkout!TypeOK, Checkout!Quoted, Checkout!Next PROVE Checkout!Quoted'
<1> DEFINE price == s2  request == s7  quoted == s8
<1> USE DEF Checkout!TypeOK, Checkout!ShopTypes, Checkout!RequestTypes, Checkout!Quoted,
            Checkout!Idle, Checkout!shopVars, Checkout!requestVars
<1>1. ASSUME NEW r \in Requests, Checkout!Submit(r) PROVE Checkout!Quoted'
  BY <1>1 DEF Checkout!Submit, Checkout!WellFormed
<1>2. ASSUME NEW r \in Requests, Checkout!ReadCart(r) PROVE Checkout!Quoted'
  BY <1>2 DEF Checkout!ReadCart
<1>3. ASSUME NEW r \in Requests,
             \/ Checkout!PlaceOrder(r) \/ Checkout!Reject(r) \/ Checkout!Succeeds(r)
             \/ Checkout!Refused(r) \/ Checkout!Lost(r)
      PROVE  Checkout!Quoted'
  <2>1. UNCHANGED <<s2, s8>>
    BY <1>3 DEF Checkout!PlaceOrder, Checkout!Reject, Checkout!Succeeds,
       Checkout!Refused, Checkout!Lost, Checkout!Answered
  <2>2. /\ \A q \in Requests \ {r} : request'[q] = request[q]
        /\ request'[r].phase \notin {"read", "alone"}
        /\ request'[r] # Checkout!Idle => request[r] # Checkout!Idle
    BY <1>3 DEF Checkout!PlaceOrder, Checkout!Reject, Checkout!Succeeds,
       Checkout!Refused, Checkout!Lost, Checkout!Answered
  <2> QED BY <2>1, <2>2
<1>4. ASSUME NEW r \in Requests, Checkout!Breaks(r) PROVE Checkout!Quoted'
  BY <1>4 DEF Checkout!Breaks
<1>5. ASSUME NEW p \in CartProducts, NEW n \in Prices, Checkout!ChangePrice(p, n)
      PROVE  Checkout!Quoted'
  BY <1>5 DEF Checkout!ChangePrice
<1>6. ASSUME NEW p \in CartProducts, Checkout!Fill(p) PROVE Checkout!Quoted'
  BY <1>6 DEF Checkout!Fill
<1>7. CASE Browsing \/ Refreshing
  <2>1. UNCHANGED <<s2, s7, s8>>
    BY <1>7 DEF Browsing, Refreshing, Checkout!Visit, Checkout!CartFetched, Checkout!Type,
       Checkout!HistoryServed, Checkout!HistoryAnswered, Checkout!HistoryFails,
       Checkout!HistoryAges, Checkout!HistoryDropped
  <2> QED BY <2>1
<1> QED BY <1>1, <1>2, <1>3, <1>4, <1>5, <1>6, <1>7 DEF Checkout!Next, Browsing, Refreshing

\* So is what it charges.
LEMMA ChargedStep ==
    ASSUME Checkout!TypeOK, Checkout!Quoted, Checkout!ChargedAsListed, Checkout!Next
    PROVE  Checkout!ChargedAsListed'
<1> DEFINE orders == s3  request == s7  quoted == s8
<1>1. ASSUME NEW r \in Requests, Checkout!PlaceOrder(r) PROVE Checkout!ChargedAsListed'
  <2> DEFINE e == [lines |-> request[r].lines,
                   total |-> Checkout!TotalAmount(request[r].lines), quotes |-> quoted[r]]
  <2>1. orders' = Append(orders, e)
    BY <1>1 DEF Checkout!PlaceOrder
  <2>2. e.total = Checkout!LinesSum(LAMBDA p : e.lines[p].qty, LAMBDA p : e.lines[p].price)
    BY DEF Checkout!TotalAmount
  <2>3. \A p \in CartProducts : e.lines[p].price \in e.quotes[p]
    BY <1>1 DEF Checkout!PlaceOrder, Checkout!Quoted
  <2>4. Checkout!Charged(e)
    BY <2>2, <2>3 DEF Checkout!Charged
  <2> HIDE DEF e
  <2> QED BY <2>1, <2>4, OrdersGrow
          DEF Checkout!TypeOK, Checkout!ShopTypes, Checkout!ChargedAsListed
<1>2. CASE orders' = orders
  BY <1>2 DEF Checkout!ChargedAsListed
<1>3. CASE Browsing \/ Refreshing
  <2>1. orders' = orders
    BY <1>3 DEF Browsing, Refreshing, Checkout!Visit, Checkout!CartFetched, Checkout!Type,
       Checkout!HistoryServed, Checkout!HistoryAnswered, Checkout!HistoryFails,
       Checkout!HistoryAges, Checkout!HistoryDropped, Checkout!shopVars
  <2> QED BY <1>2, <2>1
<1>4. ASSUME NEW r \in Requests,
             \/ Checkout!Submit(r) \/ Checkout!ReadCart(r) \/ Checkout!Reject(r)
             \/ Checkout!Succeeds(r) \/ Checkout!Refused(r)
             \/ Checkout!Lost(r) \/ Checkout!Breaks(r)
      PROVE  orders' = orders
  BY <1>4 DEF Checkout!Submit, Checkout!ReadCart, Checkout!Reject, Checkout!Succeeds,
     Checkout!Refused, Checkout!Lost, Checkout!Breaks, Checkout!Answered, Checkout!shopVars
<1>5. ASSUME NEW p \in CartProducts,
             Checkout!Fill(p) \/ \E n \in Prices : Checkout!ChangePrice(p, n)
      PROVE  orders' = orders
  BY <1>5 DEF Checkout!Fill, Checkout!ChangePrice
<1> QED BY <1>1, <1>2, <1>3, <1>4, <1>5 DEF Checkout!Next, Browsing, Refreshing

\* A visitor who waits on the page has one checkout under way; what it has read
\* stays in the cart; and its order empties a row.
LEMMA OneCheckoutStep ==
    ASSUME Checkout!TypeOK, Checkout!OneCheckout, Checkout!Next PROVE Checkout!OneCheckout'
<1> DEFINE cart == s1  orders == s3  request == s7  pending == s9  left == s15  fills == s17
           Rows == Checkout!Rows
<1> SUFFICES ASSUME ~left' PROVE Checkout!OneCheckout'
  BY DEF Checkout!OneCheckout
<1> USE DEF Checkout!TypeOK, Checkout!ShopTypes, Checkout!RequestTypes, Checkout!PageTypes,
            Checkout!shopVars, Checkout!pageVars, Checkout!requestVars, Checkout!boundVars
<1>0. ~left
  BY DEF Checkout!Next, Checkout!Visit, Checkout!CartFetched, Checkout!HistoryServed,
     Checkout!HistoryAnswered, Checkout!HistoryFails, Checkout!HistoryAges,
     Checkout!HistoryDropped, Checkout!Type,
     Checkout!Submit, Checkout!ReadCart, Checkout!PlaceOrder, Checkout!Reject,
     Checkout!Succeeds, Checkout!Refused, Checkout!Lost, Checkout!Breaks, Checkout!Fill,
     Checkout!ChangePrice
<1>1. \A r \in Requests : request[r].phase # "idle" => pending = r /\ request[r].phase # "alone"
  BY <1>0 DEF Checkout!OneCheckout
<1>2. Cardinality(Rows) \in Nat /\ Cardinality(Rows') \in Nat /\ Len(orders) \in Nat
      /\ fills \in Nat /\ Len(orders) + Cardinality(Rows) <= fills
  BY <1>0, RowsCount DEF Checkout!OneCheckout, Checkout!Rows, Checkout!IsSequence
<1>3. ASSUME NEW r \in Requests, Checkout!Submit(r) PROVE Checkout!OneCheckout'
  <2>1. /\ UNCHANGED <<s1, s3, s17>> /\ pending' = r
        /\ \A q \in Requests \ {r} : request'[q] = request[q]
        /\ request'[r].phase \in {"sent", "refused"}
    BY <1>3 DEF Checkout!Submit, Checkout!WellFormed
  <2>2. \A q \in Requests : request[q].phase = "idle"
    BY <1>1, <1>3, NoneAssumption
       DEF Checkout!Submit, Checkout!Controls, Checkout!NoRequest
  <2> QED BY <1>2, <2>1, <2>2, RowsCount DEF Checkout!OneCheckout, Checkout!Rows
<1>4. ASSUME NEW r \in Requests, Checkout!ReadCart(r) PROVE Checkout!OneCheckout'
  <2>1. /\ UNCHANGED <<s1, s3, s9, s17>>
        /\ \A q \in Requests \ {r} : request'[q] = request[q]
        /\ \/ request'[r].phase = "refused"
           \/ /\ request'[r].phase = "read" /\ Rows # {}
              /\ \A p \in CartProducts : request'[r].lines[p].qty = cart[p]
    BY <1>4 DEF Checkout!ReadCart
  <2>2. \A q \in Requests : request[q].phase # "idle" => q = r
    BY <1>1, <1>4 DEF Checkout!ReadCart
  <2>3. request'[r].phase = "read" => \E p \in CartProducts : request'[r].lines[p].qty > 0
    BY <2>1 DEF Checkout!Rows
  <2>4. \A q \in Requests : request'[q].phase # "idle" => pending' = q /\ request'[q].phase # "alone"
    BY <1>1, <1>4, <2>1, <2>2 DEF Checkout!ReadCart
  <2>5. \A q \in Requests : request'[q].phase = "read" =>
           /\ \E p \in CartProducts : request'[q].lines[p].qty > 0
           /\ \A p \in CartProducts : request'[q].lines[p].qty <= cart'[p]
    <3>1. \A q \in Requests \ {r} : request'[q].phase # "read"
      BY <2>1, <2>2
    <3>2. \A p \in CartProducts : cart'[p] = cart[p] /\ cart[p] \in Nat
      BY <2>1
    <3> QED BY <2>1, <2>3, <3>1, <3>2
  <2>6. Rows' = Rows
    BY <2>1 DEF Checkout!Rows
  <2> QED BY <1>2, <2>1, <2>4, <2>5, <2>6, RowsCount DEF Checkout!OneCheckout
<1>5. ASSUME NEW r \in Requests, Checkout!PlaceOrder(r) PROVE Checkout!OneCheckout'
  <2>1. request[r].phase = "read" /\ \A q \in Requests \ {r} : request[q].phase = "idle"
    BY <1>1, <1>5 DEF Checkout!PlaceOrder
  <2>2. /\ UNCHANGED <<s9, s17>>
        /\ \A q \in Requests \ {r} : request'[q] = request[q]
        /\ request'[r].phase = "served"
        /\ \A p \in CartProducts :
              cart'[p] = IF request[r].lines[p].qty > 0 THEN 0 ELSE cart[p]
    BY <1>5, <2>1 DEF Checkout!PlaceOrder
  <2>3. PICK e : orders' = Append(orders, e)
    BY <1>5 DEF Checkout!PlaceOrder
  <2>4. Len(orders') = Len(orders) + 1
    BY <2>3, OrdersGrow
  <2>5. PICK p \in CartProducts : request[r].lines[p].qty > 0
    BY <1>0, <2>1 DEF Checkout!OneCheckout
  <2>6. p \in Rows
    <3>1. request[r].lines[p].qty \in Nat /\ cart[p] \in Nat
      BY DEF Checkout!Lines
    <3>2. request[r].lines[p].qty <= cart[p]
      BY <1>0, <2>1 DEF Checkout!OneCheckout
    <3> QED BY <2>5, <3>1, <3>2 DEF Checkout!Rows
  <2>7. Rows' \subseteq Rows \ {p}
    BY <2>2, <2>5 DEF Checkout!Rows
  <2>8. Cardinality(Rows') <= Cardinality(Rows) - 1
    <3>1. IsFiniteSet(Rows) /\ IsFiniteSet(Rows \ {p})
      BY RowsCount
    <3>2. Cardinality(Rows \ {p}) = Cardinality(Rows) - 1
      BY <2>6, <3>1, FS_RemoveElement
    <3>3. Cardinality(Rows') <= Cardinality(Rows \ {p})
      BY <2>7, <3>1, FS_Subset
    <3> QED BY <3>2, <3>3
  <2>9. Len(orders') + Cardinality(Rows') <= fills'
    BY <1>2, <2>2, <2>4, <2>8
  <2> QED BY <1>1, <2>1, <2>2, <2>9, RowsCount DEF Checkout!OneCheckout
<1>6. ASSUME NEW r \in Requests,
             \/ Checkout!Reject(r) \/ Checkout!Succeeds(r) \/ Checkout!Refused(r)
             \/ Checkout!Lost(r)
      PROVE  Checkout!OneCheckout'
  <2>1. request[r].phase # "idle" /\ request[r].phase # "alone"
    BY <1>1, <1>6 DEF Checkout!Reject, Checkout!Succeeds, Checkout!Refused, Checkout!Lost
  <2>2. /\ UNCHANGED <<s1, s3, s17>>
        /\ \A q \in Requests \ {r} : request'[q] = request[q]
        /\ \/ request'[r].phase = "refused" /\ pending' = pending
           \/ request'[r].phase = "idle"
    BY <1>6, <2>1 DEF Checkout!Reject, Checkout!Succeeds, Checkout!Refused, Checkout!Lost,
       Checkout!Answered, Checkout!Idle
  <2>3. \A q \in Requests \ {r} : request[q].phase = "idle"
    BY <1>1, <2>1
  <2>4. \A q \in Requests :
           /\ request'[q].phase # "idle" => pending' = q /\ request'[q].phase # "alone"
           /\ request'[q].phase # "read"
    BY <1>1, <2>1, <2>2, <2>3
  <2> QED BY <1>2, <2>2, <2>4, RowsCount DEF Checkout!OneCheckout, Checkout!Rows
<1>7. ASSUME NEW r \in Requests, Checkout!Breaks(r) PROVE FALSE
  BY <1>7 DEF Checkout!Breaks
<1>8. ASSUME NEW p \in CartProducts, Checkout!Fill(p) PROVE Checkout!OneCheckout'
  <2>1. /\ UNCHANGED <<s3, s7, s9>> /\ fills' = fills + 1
        /\ \A x \in CartProducts : cart[x] \in Nat /\ cart[x] <= cart'[x]
        /\ \A x \in CartProducts \ {p} : cart'[x] = cart[x]
    BY <1>8 DEF Checkout!Fill
  <2>2. Rows' \subseteq Rows \cup {p}
    BY <2>1 DEF Checkout!Rows
  <2>3. Cardinality(Rows') <= Cardinality(Rows) + 1
    <3>1. IsFiniteSet(Rows) /\ IsFiniteSet(Rows \cup {p})
      BY RowsCount, FS_AddElement
    <3>2. Cardinality(Rows \cup {p}) \in {Cardinality(Rows), Cardinality(Rows) + 1}
      <4>1. Cardinality(Rows \cup {p}) = IF p \in Rows THEN Cardinality(Rows) ELSE Cardinality(Rows) + 1
        BY <3>1, FS_AddElement, Zenon
      <4> QED BY <4>1
    <3>3. Cardinality(Rows') <= Cardinality(Rows \cup {p}) /\ Cardinality(Rows \cup {p}) \in Nat
      BY <2>2, <3>1, FS_Subset, FS_CardinalityType
    <3> QED BY <1>2, <3>2, <3>3
  <2>4. Len(orders') + Cardinality(Rows') <= fills'
    BY <1>2, <2>1, <2>3
  <2>5. \A r \in Requests : request[r].phase = "read" =>
           \A x \in CartProducts :
              request[r].lines[x].qty \in Nat /\ request[r].lines[x].qty <= cart'[x]
    <3> SUFFICES ASSUME NEW r \in Requests, request[r].phase = "read", NEW x \in CartProducts
                 PROVE  request[r].lines[x].qty \in Nat /\ request[r].lines[x].qty <= cart'[x]
      OBVIOUS
    <3>1. request[r].lines[x].qty \in Nat /\ request[r].lines[x].qty <= cart[x]
      BY <1>0 DEF Checkout!Lines, Checkout!OneCheckout
    <3>2. cart'[x] \in Nat
      BY <1>8 DEF Checkout!Fill
    <3> QED BY <2>1, <3>1, <3>2
  <2> QED BY <1>0, <1>1, <2>1, <2>4, <2>5, RowsCount DEF Checkout!OneCheckout
<1>9. ASSUME NEW p \in CartProducts, NEW n \in Prices, Checkout!ChangePrice(p, n)
      PROVE  Checkout!OneCheckout'
  BY <1>0, <1>9, RowsCount DEF Checkout!ChangePrice, Checkout!OneCheckout, Checkout!Rows
<1>10. CASE Browsing \/ Refreshing
  <2>1. UNCHANGED <<s1, s3, s7, s17>>
    BY <1>10 DEF Browsing, Refreshing, Checkout!Visit, Checkout!CartFetched, Checkout!Type,
       Checkout!HistoryServed, Checkout!HistoryAnswered, Checkout!HistoryFails,
       Checkout!HistoryAges, Checkout!HistoryDropped
  <2>2. pending' = pending
    BY <1>10 DEF Browsing, Refreshing, Checkout!Visit, Checkout!CartFetched, Checkout!Type,
       Checkout!HistoryServed, Checkout!HistoryAnswered, Checkout!HistoryFails,
       Checkout!HistoryAges, Checkout!HistoryDropped
  <2> QED BY <1>0, <2>1, <2>2, RowsCount DEF Checkout!OneCheckout, Checkout!Rows
<1> QED BY <1>3, <1>4, <1>5, <1>6, <1>7, <1>8, <1>9, <1>10
        DEF Checkout!Next, Browsing, Refreshing

\* What the query was not told of is about to be answered, or was lost.
LEMMA ListedStep ==
    ASSUME Checkout!TypeOK, Checkout!Listed, Checkout!Next PROVE Checkout!Listed'
<1> DEFINE orders == s3  request == s7  history == s11  stale == s12  fetch == s13  got == s14
           unseen == s16
<1> USE DEF Checkout!Listed, Checkout!Told,
            Checkout!shopVars, Checkout!pageVars, Checkout!queryVars
<1>1. ASSUME NEW r \in Requests, Checkout!PlaceOrder(r) PROVE Checkout!Listed'
  <2>1. (unseen' \/ request'[r].phase = "served") /\ UNCHANGED <<s12, s13>>
    BY <1>1 DEF Checkout!PlaceOrder, Checkout!TypeOK, Checkout!RequestTypes
  <2> QED BY <2>1
<1>2. ASSUME NEW r \in Requests, Checkout!Succeeds(r) PROVE Checkout!Listed'
  <2>1. /\ stale' = TRUE /\ orders' = orders
        /\ \/ fetch' = "sent"
           \/ fetch' = fetch /\ unseen' = (unseen \/ fetch = "answered")
    BY <1>2 DEF Checkout!Succeeds, Checkout!Invalidate, Checkout!Answered
  <2>2. fetch' = "answered" => unseen'
    BY <2>1
  <2> QED BY <2>1, <2>2
<1>3. ASSUME NEW r \in Requests, Checkout!Lost(r) PROVE Checkout!Listed'
  <2>1. UNCHANGED <<s3, s11, s12, s13, s14>> /\ unseen' = (unseen \/ request[r].phase = "served")
    BY <1>3 DEF Checkout!Lost, Checkout!Answered
  <2>2. \A q \in Requests \ {r} : request'[q] = request[q]
    BY <1>3 DEF Checkout!Lost, Checkout!Answered, Checkout!TypeOK, Checkout!RequestTypes
  <2>3. Checkout!Told' => Checkout!Told
    BY <2>1, <2>2
  <2> QED BY <2>1, <2>3
<1>4. ASSUME NEW r \in Requests,
             \/ Checkout!Submit(r) \/ Checkout!ReadCart(r) \/ Checkout!Reject(r)
             \/ Checkout!Refused(r) \/ Checkout!Breaks(r)
      PROVE  Checkout!Listed'
  <2>1. UNCHANGED <<s3, s11, s12, s13, s14, s16>>
    BY <1>4 DEF Checkout!Submit, Checkout!ReadCart, Checkout!Reject, Checkout!Refused,
       Checkout!Breaks, Checkout!Answered
  <2>2. /\ \A q \in Requests \ {r} : request'[q] = request[q]
        /\ request[r].phase # "served"
    BY <1>4 DEF Checkout!Submit, Checkout!ReadCart, Checkout!Reject, Checkout!Refused,
       Checkout!Breaks, Checkout!Answered, Checkout!Idle, Checkout!TypeOK,
       Checkout!RequestTypes
  <2>3. Checkout!Told' => Checkout!Told
    BY <2>1, <2>2
  <2> QED BY <2>1, <2>3
<1>5. ASSUME NEW p \in {"checkout", "profile", "other"}, Checkout!Visit(p) PROVE Checkout!Listed'
  <2>1. /\ UNCHANGED <<s3, s7, s11, s12, s14, s16>>
        /\ fetch' = fetch \/ (fetch' = "sent" /\ stale)
    BY <1>5 DEF Checkout!Visit, Checkout!requestVars
  <2> QED BY <2>1
<1>6. CASE \/ Checkout!CartFetched
           \/ \E f \in {"incomplete", "malformed", "valid"} : Checkout!Type(f)
           \/ \E p \in CartProducts :
                 Checkout!Fill(p) \/ \E n \in Prices : Checkout!ChangePrice(p, n)
  <2>1. UNCHANGED <<s3, s7, s11, s12, s13, s14, s16>>
    BY <1>6 DEF Checkout!CartFetched, Checkout!Type, Checkout!Fill, Checkout!ChangePrice,
       Checkout!requestVars
  <2> QED BY <2>1
<1>7. CASE Checkout!HistoryServed
  BY <1>7 DEF Checkout!HistoryServed
<1>8. CASE Checkout!HistoryAnswered
  BY <1>8 DEF Checkout!HistoryAnswered, Checkout!requestVars
<1>9. CASE Checkout!HistoryFails
  BY <1>9 DEF Checkout!HistoryFails
<1>10. CASE Checkout!HistoryAges
  BY <1>10 DEF Checkout!HistoryAges
<1>11. CASE Checkout!HistoryDropped
  BY <1>11 DEF Checkout!HistoryDropped
<1> QED BY <1>1, <1>2, <1>3, <1>4, <1>5, <1>6, <1>7, <1>8, <1>9, <1>10, <1>11 DEF Checkout!Next

LEMMA CheckoutStep ==
    ASSUME Checkout!CheckoutInv, [Checkout!Next]_Checkout!vars PROVE Checkout!CheckoutInv'
<1> USE DEF Checkout!CheckoutInv
<1>1. CASE UNCHANGED Checkout!vars
  <2>1. UNCHANGED <<s1, s2, s3, s4, s5, s6, s7, s8, s9, s10>>
        /\ UNCHANGED <<s11, s12, s13, s14, s15, s16, s17, s18, s19>>
    BY <1>1 DEF Checkout!vars, Checkout!shopVars, Checkout!pageVars, Checkout!queryVars,
       Checkout!requestVars, Checkout!boundVars
  <2>2. Checkout!TypeOK'
    BY <2>1 DEF Checkout!TypeOK, Checkout!ShopTypes, Checkout!RequestTypes,
       Checkout!PageTypes, Checkout!QueryTypes
  <2>3. Checkout!OneCheckout' /\ Checkout!Quoted'
    BY <2>1, RowsCount DEF Checkout!OneCheckout, Checkout!Quoted, Checkout!Rows
  <2>4. Checkout!ChargedAsListed' /\ Checkout!Listed'
    BY <2>1 DEF Checkout!ChargedAsListed, Checkout!Listed, Checkout!Told
  <2> QED BY <2>2, <2>3, <2>4
<1>2. CASE Checkout!Next
  BY <1>2, ShopTypesStep, RequestTypesStep, PageTypesStep, OneCheckoutStep, QuotedStep,
     ChargedStep, ListedStep DEF Checkout!TypeOK
<1> QED BY <1>1, <1>2

\* The inductive invariant of the checkout page and the order history: a checkout
\* that answers replaces the fetch under way only on a page whose query has data,
\* and what the fetch may miss is known (CheckoutPage.tsx:47-70, useOrders.ts:8-32).
THEOREM CheckoutInvHolds == Spec => [](part = "checkout" => Checkout!CheckoutInv)
<1>1. Init => (part = "checkout" => Checkout!CheckoutInv)
  BY CheckoutStarts, CheckoutInit
<1>2. (part = "checkout" => Checkout!CheckoutInv) /\ [Next]_slots
         => (part = "checkout" => Checkout!CheckoutInv)'
  <2>1. [Next]_slots => part' = part
    BY DEF Next, slots
  <2> QED BY <2>1, CheckoutSteps, CheckoutStep
<1> QED BY <1>1, <1>2, PTL DEF Spec

\* Whoever waits on the page buys a cart once, however often an answer is lost; and
\* an order costs its lines, at prices they had meanwhile (CheckoutPage.tsx:54-64,
\* orders.service.ts:48-60).
THEOREM CartsAreBoughtOnce == Spec => []BoughtOnceAsListed
<1>1. ASSUME Checkout!CheckoutInv PROVE Checkout!BoughtOnce /\ Checkout!ChargedAsListed
  <2>1. Len(s3) \in Nat /\ s17 \in Nat /\ Cardinality(Checkout!Rows) \in Nat
    BY <1>1, RowsCount DEF Checkout!CheckoutInv, Checkout!TypeOK, Checkout!ShopTypes,
       Checkout!IsSequence
  <2>2. ~s15 => Len(s3) + Cardinality(Checkout!Rows) <= s17
    BY <1>1, RowsCount DEF Checkout!CheckoutInv, Checkout!OneCheckout
  <2>3. Checkout!BoughtOnce
    BY <2>1, <2>2 DEF Checkout!BoughtOnce
  <2> QED BY <1>1, <2>3 DEF Checkout!CheckoutInv
<1>2. (part = "checkout" => Checkout!CheckoutInv) => BoughtOnceAsListed
  BY <1>1 DEF BoughtOnceAsListed
<1> QED BY <1>2, CheckoutInvHolds, PTL

\* The profile that has fetched shows every order, but for those whose answer was
\* lost or came while the query kept a fetch that had been answered before: a first
\* fetch is not dropped (useOrders.ts:5, 28-31).
THEOREM HistoryShowsEveryOrder == Spec => []HistoryComplete
<1>1. ASSUME part = "checkout", Checkout!CheckoutInv PROVE HistoryComplete
  <2>1. Len(s3) # Checkout!Missing
    BY <1>1 DEF Checkout!CheckoutInv, Checkout!TypeOK, Checkout!ShopTypes,
       Checkout!IsSequence, Checkout!Missing
  <2> QED BY <1>1, <2>1 DEF HistoryComplete, Checkout!HistoryComplete,
          Checkout!OrderHistory, Checkout!CheckoutInv, Checkout!Listed, Checkout!Told
<1>2. (part = "checkout" => Checkout!CheckoutInv) => HistoryComplete
  BY <1>1 DEF HistoryComplete
<1> QED BY <1>2, CheckoutInvHolds, PTL
=============================================================================
