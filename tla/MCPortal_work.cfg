SPECIFICATION BothSpec
CONSTANTS
    None = None
    u1 = u1
    u2 = u2
    r1 = r1
    r2 = r2
    Uploads = {u1, u2}
    Requests = {r1, r2}
    Limit = 1
    MaxMishaps = 2
    Notes = {1, 2}
    Tabs = {t1}
    Streams = {s1, s2}
    ReplayLimit = 2
    Cap = 1
    MaxOutages = 2
INVARIANTS
    QuotaIsExact
    KeepsItsObject
    NoOrphan
    NothingGoesUnnoticed
PROPERTIES
    PaidWhileWritable
    EventuallySettled
    TabsCatchUp
CHECK_DEADLOCK FALSE
