SPECIFICATION CatalogueSpec
CONSTANTS
    t1 = t1
    t2 = t2
    t3 = t3
    k1 = k1
    k2 = k2
    Works = {w1}
    Texts = {t1, t2}
    Keys = {k1, k2}
    Key <- ByCase
    Ids = {c1, c2}
    Worker = Worker
    Requests = {q1, q2}
    NoText = NoText
    NoId = NoId
    Names = {1, 2, 3}
    Titles = {"w1", "w2"}
    Credited <- TwoWorks
    Alike <- AllAlike
    Identifiers = {"Q1", "Q2"}
    Staffers = {r1, r2}
    MaxRequests = 2
    Subjects = {"authors", "profiles"}
    NoName = 0
    NoIdentifier = "none"
    ta = ta
    oa = oa
    ea = ea
    m1 = m1
    m2 = m2
    Pages = {1}
    Manners = {m1, m2}
    Books <- Cases
    Readers = {ta, oa, ea}
    Handled <- OneEach
    MaxInARow = 2
    MaxAsked = 1
    MaxMishaps = 1
INVARIANTS FollowsSeries NameLeadsHome AbsorbedIsFound ProfileIsTheirs WholeAlone EmbeddedIsWhole
PROPERTIES CreditsFollow OcrReachesText

CHECK_DEADLOCK FALSE
SYMMETRY Interchangeable
