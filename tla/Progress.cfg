SPECIFICATION FairSpec
CONSTANTS
    u1 = u1
    c1 = c1
    c2 = c2
    d1 = d1
    t1 = t1
    r1 = r1
    r2 = r2
    p1 = p1
    p2 = p2
    m1 = m1
    m2 = m2
    w1 = w1
    w2 = w2
    NoText = NoText
PROPERTIES
    RequestsAnswered
    CallsSettle
    ConvergesToServer
    SearchSettles
CHECK_DEADLOCK FALSE
