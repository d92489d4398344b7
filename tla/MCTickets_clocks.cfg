SPECIFICATION FairSpec
CONSTANTS
    None = None
    req = req
    agent = agent
    admin = admin
    owner = owner
    q1 = q1
    q2 = q2
    s1 = s1
    s2 = s2
    Types = {"INCIDENT"}
    People = {req, agent, admin}
    Agents = {agent, admin}
    Admins = {admin}
    Owners = {}
    Leads = {}
    Requester <- Raised
    Requests = {q1}
    Scans = {s1, s2}
    Priorities = {"high"}
    First = "high"
    Policies <- MCEdited
    Agreed <- MCAgreed
    Warning = 1
    AutoCloseAfter = 1
    ReopenWindow = 1
    ReplyRaces = FALSE
    MaxTime = 3
    MaxVersion = 4
INVARIANTS BreachIsToldOnce
PROPERTIES EventuallyClosed EventuallyFlagged
CHECK_DEADLOCK FALSE
