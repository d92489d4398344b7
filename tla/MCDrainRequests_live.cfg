SPECIFICATION FairSpec
CONSTANTS
    None = None
    l1 = l1
    s1 = s1
    w1 = w1
    w2 = w2
    j1 = j1
    j2 = j2
    j3 = j3
    j4 = j4
    Listeners = {l1}
    Sweepers = {s1}
    Workers = {w1, w2}
    Jobs = {j1, j2, j3, j4}
    MaxEvents = 1
    Batch = 1
    Attempts = 2
    MaxThrows = 1
    MaxMishaps = 1
INVARIANTS NoLostWake OneWaitingDrain
PROPERTIES EventuallyRead
CHECK_DEADLOCK FALSE
