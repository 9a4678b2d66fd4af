SPECIFICATION Spec
CONSTANTS
    u1 = u1
    u2 = u2
    c1 = c1
    c2 = c2
    s1 = s1
    s2 = s2
    Users = {u1}
    Products = {1}
    Checkouts = {c1, c2}
    Updates = {}
    UserOf <- OneCustomer
    StockLevels = {2}
    CartQtys = {1}
    Overlap = TRUE
    Crashes = FALSE
PROPERTIES
    OrderTakesItsCart
CHECK_DEADLOCK FALSE
