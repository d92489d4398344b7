SPECIFICATION RacesSpec
CONSTANTS
    None = None
    a1 = a1
    a2 = a2
    b1 = b1
    b2 = b2
    b3 = b3
    c1 = c1
    c2 = c2
    Founder = ann
    People = {ann, a1, a2}
    Requests = {b1, b2, b3}
    Invites = {c1, c2}
    Limit = 2
    Tokens = {ann, b1, b2, b3}
    Refreshes = {c1, c2}
    Callers = {ann, b1, b2, b3}
    Body <- BodyOf
    MaxOutages = 2
    Deliveries = {a1, a2}
    Slots = {c1, c2}
    MaxAttempts = 2
    Delays = {0, 1}
    Lease = 2
    Late = 1
    Threshold = 2
    MinOpen = 2
    MaxOpen = 3
    DisableAfter = 4
    MaxFails = 3
    MaxTurns = 2
    Tickets = {a1, a2}
    Refreshers = {c1, c2}
    MaxVersion = 2
    MaxFlags = 1
CONSTRAINT Governed
SYMMETRY Alike
INVARIANTS
    AnOwnerRemains
    SeatsAreExact
    EndedForGood
    OneEntityPerClaim
    AttemptOwnsItsDelivery
    CircuitHolds
    FactsKeepUp
    NoChains
CHECK_DEADLOCK FALSE
