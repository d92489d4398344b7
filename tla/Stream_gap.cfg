SPECIFICATION Spec
CONSTANTS
    None = None
    Notes = {1,2}
    Tabs = {t1}
    Streams = {s1,s2}
    ReplayLimit = 2
    Cap = 1
    MaxOutages = 2
PROPERTIES NothingInTheGap
CHECK_DEADLOCK FALSE
