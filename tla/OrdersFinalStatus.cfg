SPECIFICATION Spec
CONSTANTS
    u1 = u1
    u2 = u2
    c1 = c1
    c2 = c2
    s1 = s1
    s2 = s2
    Users = {u1}
    Products = {1}
    Checkouts = {c1}
    Updates = {s1, s2}
    UserOf <- OneCheckout
    StockLevels = {1}
    CartQtys = {1}
    Overlap = TRUE
    Crashes = FALSE
PROPERTIES
    FinalStatusIsFinal
CHECK_DEADLOCK FALSE
