SPECIFICATION FairSpec
CONSTANTS
    c1 = c1
    c2 = c2
    d1 = d1
    d2 = d2
    r1 = r1
    r2 = r2
    None = None
    Consumers = {c1, c2}
    Drains = {d1, d2}
    Replays = {r1, r2}
    MaxTxn = 2
    MaxPerTxn = 1
    Batch = 2
    MaxFailures = 2
    Poison <- PoisonOne
    MaxHiccups = 1
INVARIANTS
    NoSkippedEvent
    ParkedAfterMaxFailures
    NothingLost
PROPERTIES
    KeepsItsPromise
    EventuallySettled
CHECK_DEADLOCK FALSE
