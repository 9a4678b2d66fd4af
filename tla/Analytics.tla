----------------------------- MODULE Analytics -----------------------------
(***************************************************************************)
(* AnalyticsService and the dashboard that shows it: the reports as        *)
(* operators over the orders, while orders are placed and cancelled,       *)
(* products are renamed and time passes.  Time is in hours, dates are      *)
(* numbers, and the server's clock is some hours ahead of UTC, or behind,  *)
(* that may differ from date to date.                                      *)
(***************************************************************************)
EXTENDS Integers, FiniteSetsExt, SequencesExt

CONSTANTS
    Products,
    Price,          \* Price[p], of a unit of p
    Names,          \* of products
    Qtys,           \* of the lines of an order
    Zones,          \* time zones of the server
    DayLength,      \* hours of a day
    DayRanges,      \* days of salesByDay that the dashboard offers
    TopLimit,       \* rows of topProducts
    MaxHours,       \* bound on the time
    MaxOrders       \* bound on the orders

VARIABLES
    clock,      \* hours since the start
    zone,       \* time zone of the server: its hours ahead of UTC, on standard and on
                \* summer days
    name,       \* name[p]: Product.name
    orders,     \* sequence of orders: createdAt, status and items
    renamed     \* history: products renamed after they were sold

vars == <<clock, zone, name, orders, renamed>>

Init ==
    /\ clock = 0 /\ zone \in Zones
    /\ \E n \in Names : name = [p \in Products |-> n]
    /\ orders = <<>> /\ renamed = {}

Amount(items, p) == items[p].qty * Price[p]
TotalAmount(items) == SumFunction([p \in DOMAIN items |-> Amount(items, p)])

-----------------------------------------------------------------------------
(* What the reports read *)

\* Mutant of Counted: the status is not looked at.
CountedAll == DOMAIN orders
\* status notIn NON_REVENUE_STATUSES.
Counted == {o \in DOMAIN orders : orders[o].status # "CANCELLED"}

\* dateFilter: both ends are optional, and inclusive.
Always == [from |-> {}, to |-> {}]
InRange(t, range) == (\A n \in range.from : t >= n) /\ (\A n \in range.to : t <= n)
Selected(range) == {o \in Counted : InRange(orders[o].createdAt, range)}

Revenue(S) == SumFunction([o \in S |-> TotalAmount(orders[o].items)])

Summary(range) ==
    [totalRevenue |-> Revenue(Selected(range)), orderCount |-> Cardinality(Selected(range))]

\* Mutant of Items: the WHERE of topProducts forgets the status.
ItemsOfAll(range) ==
    {i \in (DOMAIN orders) \X Products :
        InRange(orders[i[1]].createdAt, range) /\ i[2] \in DOMAIN orders[i[1]].items}
\* GROUP BY productId, productName, joined with the orders that count.
Items(range) ==
    {i \in Selected(range) \X Products : i[2] \in DOMAIN orders[i[1]].items}
Group(i) == [productId |-> i[2], name |-> orders[i[1]].items[i[2]].name]
Row(range, g) ==
    LET of == {i \in Items(range) : Group(i) = g} IN
    [productId |-> g.productId, name |-> g.name,
     sold |-> SumFunction([i \in of |-> orders[i[1]].items[i[2]].qty]),
     revenue |-> SumFunction([i \in of |-> Amount(orders[i[1]].items, i[2])])]
Rows(range) == {Row(range, Group(i)) : i \in Items(range)}

\* ORDER BY revenue DESC, LIMIT: rows that earned the same may come in any order.
IsTop(T, range) ==
    /\ T \subseteq Rows(range)
    /\ Cardinality(T) = IF Cardinality(Rows(range)) < TopLimit THEN Cardinality(Rows(range)) ELSE TopLimit
    /\ \A t \in T, r \in Rows(range) \ T : t.revenue >= r.revenue
TopProducts(range) == {T \in SUBSET Rows(range) : IsTop(T, range)}

\* One line per item, of the orders oldest first.
ExportedLines(range) ==
    FlattenSeq([k \in 1 .. Len(orders) |->
        IF k \in Selected(range)
        THEN SetToSeq({[order |-> k, qty |-> orders[k].items[p].qty, name |-> orders[k].items[p].name,
                        lineTotal |-> Amount(orders[k].items, p), product |-> p] :
                           p \in DOMAIN orders[k].items})
        ELSE <<>>])

-----------------------------------------------------------------------------
(* salesByDay: the buckets start at local midnights, and are named, as the *)
(* orders are, by the date in UTC.                                         *)

UtcDate(t) == t \div DayLength

\* setHours(0, 0, 0, 0) and setDate: a local date has the midnight of its offset,
\* so it is an hour longer or shorter when the clock changes, which it does at
\* another hour.
Ahead(d) == IF d \in zone.summerDays THEN zone.summer ELSE zone.standard
Midnight(d) == d * DayLength - Ahead(d)
LocalDate(t) ==
    CHOOSE d \in UtcDate(t) - 1 .. UtcDate(t) + 1 : Midnight(d) <= t /\ t < Midnight(d + 1)

FirstDate(days) == LocalDate(clock) - (days - 1)
Since(days) == Midnight(FirstDate(days))
\* A date that two midnights have in UTC is one key of the map.
BucketDates(days) == {UtcDate(Midnight(FirstDate(days) + i)) : i \in 0 .. days - 1}

Recent(days) == {o \in Counted : orders[o].createdAt >= Since(days)}
\* Mutant of InBucket: an order is looked up by its local date.
InBucketLocal(days, d) == {o \in Recent(days) : LocalDate(orders[o].createdAt) = d}
InBucket(days, d) == {o \in Recent(days) : UtcDate(orders[o].createdAt) = d}
SalesByDay(days) ==
    [d \in BucketDates(days) |->
        [revenue |-> Revenue(InBucket(days, d)), orders |-> Cardinality(InBucket(days, d))]]

-----------------------------------------------------------------------------
(* The dashboard: four numbers, the curve, and the table of the top.       *)

Stats(top) ==
    [revenue |-> Summary(Always).totalRevenue, orders |-> Summary(Always).orderCount,
     unitsSold |-> SumFunction([r \in top |-> r.sold]), tracked |-> Cardinality(top)]
\* The rows of the table are told apart by their products.
TableKeys(top) == {r.productId : r \in top}
Curve(days) == SumFunction([d \in BucketDates(days) |-> SalesByDay(days)[d].revenue])

-----------------------------------------------------------------------------
PlaceOrder(qty) ==
    /\ Len(orders) < MaxOrders
    /\ orders' = Append(orders, [createdAt |-> clock, status |-> "NEW",
                     items |-> [p \in DOMAIN qty |-> [name |-> name[p], qty |-> qty[p]]]])
    /\ UNCHANGED <<clock, zone, name, renamed>>

CancelOrder(o) ==
    /\ orders[o].status = "NEW"
    /\ orders' = [orders EXCEPT ![o].status = "CANCELLED"]
    /\ UNCHANGED <<clock, zone, name, renamed>>

\* The items of old orders keep the name they were sold under.
Rename(p, n) ==
    /\ n # name[p]
    /\ name' = [name EXCEPT ![p] = n]
    /\ renamed' = IF \E o \in DOMAIN orders : p \in DOMAIN orders[o].items
                  THEN renamed \cup {p} ELSE renamed
    /\ UNCHANGED <<clock, zone, orders>>

Tick ==
    /\ clock < MaxHours
    /\ clock' = clock + 1
    /\ UNCHANGED <<zone, name, orders, renamed>>

Next ==
    \/ \E S \in (SUBSET Products) \ {{}} : \E qty \in [S -> Qtys] : PlaceOrder(qty)
    \/ \E o \in DOMAIN orders : CancelOrder(o)
    \/ \E p \in Products, n \in Names : Rename(p, n)
    \/ Tick

Spec == Init /\ [][Next]_vars

-----------------------------------------------------------------------------
(* Properties *)

ItemLists == UNION {[S -> [name : Names, qty : Qtys]] : S \in (SUBSET Products) \ {{}}}

TypeOK ==
    /\ clock \in 0 .. MaxHours /\ zone \in Zones
    /\ name \in [Products -> Names] /\ renamed \subseteq Products
    /\ orders \in Seq([createdAt : 0 .. clock, status : {"NEW", "CANCELLED"}, items : ItemLists])

\* An item has the name its product has, unless that was renamed after a sale.
ReportsInv ==
    /\ TypeOK
    /\ \A o \in DOMAIN orders : \A p \in (DOMAIN orders[o].items) \ renamed :
           orders[o].items[p].name = name[p]

\* Every order of the last days is in one bucket, at every hour, but for two kinds
\* that are in none.  Where the clock is not that of UTC, one of today's orders
\* may come after the last bucket.  And a clock that is ahead of UTC, and after a
\* change is not, leaves out the UTC date of that night, whose orders are missed
\* wherever in the range they are (analytics.service.ts:78-105).
Skipped(d) == Ahead(d) > 0 /\ Ahead(d + 1) <= 0
DaysAddUp ==
    \A days \in DayRanges :
        LET missed == {o \in Recent(days) : UtcDate(orders[o].createdAt) \notin BucketDates(days)}
            today == LocalDate(clock) IN
        /\ Curve(days) = Revenue(Recent(days) \ missed)
        /\ \A o \in missed :
              \/ LocalDate(orders[o].createdAt) = today /\ (Ahead(today) > 0 \/ Ahead(today + 1) < 0)
              \/ Skipped(UtcDate(orders[o].createdAt))

\* For a range that is open at either end, at both or at none, the summary, the
\* groups of the products and the lines of the export are about the same orders
\* and the same money
\* (analytics.service.ts:25-76, 107-150).
ReportsAgree ==
    \A range \in [from : {{}, {clock - 1}}, to : {{}, {clock - 1}}] :
        LET lines == ExportedLines(range) IN
        /\ Summary(range).totalRevenue = SumFunction([r \in Rows(range) |-> r.revenue])
        /\ Summary(range).totalRevenue = SumFunction([k \in DOMAIN lines |-> lines[k].lineTotal])
        /\ Summary(range).orderCount = Cardinality({lines[k].order : k \in DOMAIN lines})

\* While no product was renamed after a sale, the table of the top has a row
\* per product and no product outside it has earned more than one inside, in
\* orders that were not cancelled (analytics.service.ts:55-68).
TopProductsLead ==
    LET bought(p) == {o \in DOMAIN orders :
                         orders[o].status # "CANCELLED" /\ p \in DOMAIN orders[o].items}
        earned(p) == SumFunction([o \in bought(p) |-> Amount(orders[o].items, p)])
    IN  renamed = {} =>
            \A T \in TopProducts(Always) :
                LET ids == TableKeys(T) IN
                /\ Stats(T).tracked = Cardinality(ids)
                /\ \A p \in ids, q \in Products \ ids : earned(p) >= earned(q)
=============================================================================
