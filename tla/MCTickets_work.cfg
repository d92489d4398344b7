SPECIFICATION Spec
CONSTANTS
    None = None
    req = req
    agent = agent
    admin = admin
    owner = owner
    q1 = q1
    q2 = q2
    s1 = s1
    s2 = s2
    Types = {"INCIDENT", "PROBLEM", "CHANGE"}
    People = {req, agent, admin}
    Agents = {agent, admin}
    Admins = {admin}
    Owners = {}
    Leads = {}
    Requester <- Raised
    Requests = {q1, q2}
    Scans = {}
    Priorities = {"high", "low"}
    First = "high"
    Policies <- MCSettled
    Agreed <- MCAgreed
    Warning = 1
    AutoCloseAfter = 1
    ReopenWindow = 0
    ReplyRaces = FALSE
    MaxTime = 1
    MaxVersion = 5
CONSTRAINT Bounded
SYMMETRY Alike
INVARIANTS
    ClocksFollowStatus
    DeadlinesAreTheFormula
    PendingIsAnswered
    StatusHasItsGrounds
    DecisionIsPossible
PROPERTIES
    MovesByTheTable
CHECK_DEADLOCK FALSE
