SPECIFICATION ServicesSpec
CONSTANTS
    None = None
    Nobody = Nobody
    Requests = {r1, r2}
    Purgers = {g1, g2}
    Tables = 2
    Window = 2
    Grace = 1
    Heads = 2
    MaxCrashes = 1
    Workers = {v1, v2}
    Deliveries = {d1, d2}
    MaxAttempts = 2
    Delays = {1}
    Lease = 2
    Late = 1
    Threshold = 2
    MinOpen = 2
    MaxOpen = 3
    DisableAfter = 3
    MaxFails = 3
    MaxTurns = 1
    People = {ann, bob}
    Founder = ann
    MaxChanges = 3
    Archives = {x1, x2}
    Cooldown = 2
    LinkLasts = 2
    MaxFailures = 2
    Copies = {c1, c2, c3}
    Forged = {c3}
    Attempts = 2
    MaxFaults = 1
INVARIANTS
    NothingIsHalfPurged
    OneExportADay
    ActsOnce
PROPERTIES
    EventuallyPurged
    EventuallyEnds
    PickerSettles
    ArchiveLapses
    EventuallyDecided
CHECK_DEADLOCK FALSE
