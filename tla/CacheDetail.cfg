SPECIFICATION Spec
CONSTANTS
    p1 = p1
    p2 = p2
    l1 = l1
    l2 = l2
    d1 = d1
    w1 = w1
    w2 = w2
    Nothing = Nothing
    Products = {p1}
    ListReaders = {}
    DetailReaders = {d1}
    Writers = {w1, w2}
    CategoryWriters = {}
    Crashes = FALSE
INVARIANTS
    DetailNeverStale
