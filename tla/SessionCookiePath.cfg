SPECIFICATION Spec
CONSTANTS
    t1 = t1
    t2 = t2
    r1 = r1
    r2 = r2
    Tabs = {t1, t2}
    Requests = {r1, r2}
    TabOf <- OneEach
    BaseUrl <- ApiBelowSite
    MaxTokens = 1
    Disturbances = FALSE
PROPERTY TabsStaySignedIn
CHECK_DEADLOCK FALSE
