SPECIFICATION Spec
CONSTANTS
    t1 = t1
    t2 = t2
    t3 = t3
    k1 = k1
    k2 = k2
    Works = {w1}
    Texts = {t1, t2}
    Keys = {k1, k2}
    Key <- ByCase
    Ids = {c1, c2}
    Worker = Worker
    Requests = {q1}
    NoText = NoText
    NoId = NoId
SYMMETRY Symmetry
PROPERTIES LockedIsKept
