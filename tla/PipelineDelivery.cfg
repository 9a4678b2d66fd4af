SPECIFICATION FairPipelineSpec
CONSTANTS
    u1 = u1
    c1 = c1
    c2 = c2
    s1 = s1
    s2 = s2
    Users = {u1}
    Products = {1}
    Checkouts = {c1, c2}
    Updates = {s1}
    UserOf <- TwoCheckouts
    StockLevels = {1}
    CartQtys = {1}
    Overlap = TRUE
    Crashes = FALSE
    Attempts = 3
    MaxStalls = 1
    MaxErrors = 2
    MaxDeaths = 1
INVARIANTS
    PipelineTypeOK
    CompletedJobsProcessed
PROPERTIES
    AdminDecisionStands
    ImplementsOrders
    OrdersGetProcessed
CHECK_DEADLOCK FALSE
