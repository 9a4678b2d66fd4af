SPECIFICATION Spec
CONSTANTS
    u1 = u1
    u2 = u2
    c1 = c1
    c2 = c2
    s1 = s1
    s2 = s2
    Users = {u1}
    Products = {1}
    Checkouts = {c1, c2}
    Updates = {s1, s2}
    UserOf <- OneCustomer
    StockLevels = {0, 2}
    CartQtys = {1, 2}
    Overlap = FALSE
    Crashes = TRUE
INVARIANTS
    RestockedIffCancelled
    LedgerAddsUp
PROPERTIES
    FinalStatusIsFinal
    OrderTakesItsCart
    ImplementsLedger
CHECK_DEADLOCK FALSE
