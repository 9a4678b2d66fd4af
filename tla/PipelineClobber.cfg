SPECIFICATION PipelineSpec
CONSTANTS
    u1 = u1
    c1 = c1
    c2 = c2
    s1 = s1
    s2 = s2
    Users = {u1}
    Products = {1}
    Checkouts = {c1}
    Updates = {s1, s2}
    UserOf <- OneCheckout
    StockLevels = {1}
    CartQtys = {1}
    Overlap = FALSE
    Crashes = FALSE
    Attempts = 3
    MaxStalls = 1
    MaxErrors = 0
    MaxDeaths = 0
PROPERTIES
    WorkerNeverClobbers
CHECK_DEADLOCK FALSE
