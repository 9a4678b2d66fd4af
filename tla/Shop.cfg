SPECIFICATION Spec
CONSTANTS
    p1 = p1
    p2 = p2
    a1 = a1
    a2 = a2
    t1 = t1
    t2 = t2
    r1 = r1
    r2 = r2
    m1 = m1
    m2 = m2
    c1 = c1
    c2 = c2
    n1 = n1
    n2 = n2
    o1 = o1
    o2 = o2
    CartProducts = {p1}
    Adds = {a1, a2}
    Updates = {w1}
    Removals = {d1}
    Amounts = {1, 2}
    StockLevels = {1, 2}
    Tabs = {t1, t2}
    Requests = {r1, r2}
    TabOf <- OneEach
    BaseUrl <- OwnHost
    MaxTokens = 1
    Disturbances = TRUE
    Emails = {e1, boss}
    Admins = {boss}
    Attempts = {a1, a2}
    PasswordTexts = {"mine"}
    Rivals = {v1}
    Products = {p1, p2}
    Clicks = {m1, m2}
    Stock = 2
    MaxCartFailures = 2
    MaxStock = 3
    MaxClicks = 2
    Prices = {1, 2}
    MaxFills = 1
    MaxChanges = 1
    Words = {NoText, w1}
    NoText = NoText
    Pages = 2
    MaxInputs = 3
    OnSale = 0
    MaxCreated = 2
    MaxShelf = 1
    MaxOpened = 1
    Categories = {c1, c2}
    Names = {n1, n2}
    OrderIds = {o1, o2}
    Choices = {"NEW", "COMPLETED", "CANCELLED"}
    Price <- Prices2
    Qtys = {1, 2}
    Zones <- Zones3
    DayLength = 2
    DayRanges = {1, 2}
    TopLimit = 1
    MaxHours = 3
    MaxOrders = 2
    MaxLines = 2
    MaxChars = 3
    Slots = {m1, m2}
    Routes = {"POST /auth/login", "POST /products"}
    GlobalLimit = 2
    LoginLimit = 1
    MaxFailures = 1
INVARIANTS
    TypesOK
    LogoutIsFinal
    RegistrationsStand
    SettledShowsServer
    BoughtOnceAsListed
    HistoryComplete
    SavesGoWhereMeant
    TableShowsDatabase
    CancelledOnce
    DaysAddUp
    ReportsAgree
    CsvRoundTrip
    RefusalsAreClean
PROPERTIES
    CartWritesStand
    TabsStaySignedIn
    ReturnsToWantedPage
    NoFlicker
SYMMETRY Symmetry
CHECK_DEADLOCK FALSE
