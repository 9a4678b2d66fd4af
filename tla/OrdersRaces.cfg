SPECIFICATION Spec
CONSTANTS
    u1 = u1
    u2 = u2
    c1 = c1
    c2 = c2
    s1 = s1
    s2 = s2
    Users = {u1, u2}
    Products = {1, 2}
    Checkouts = {c1, c2}
    Updates = {s1}
    UserOf <- TwoCustomers
    StockLevels = {1}
    CartQtys = {1}
    Overlap = TRUE
    Crashes = TRUE
INVARIANTS
    TypeOK
    StockNonNegative
    ReservedUnitsAvailable
    OrderedProductsExist
    CheckoutsNeverDeadlock
CHECK_DEADLOCK FALSE
