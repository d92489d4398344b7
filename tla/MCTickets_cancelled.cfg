SPECIFICATION Spec
CONSTANTS
    None = None
    req = req
    agent = agent
    admin = admin
    owner = owner
    q1 = q1
    q2 = q2
    s1 = s1
    s2 = s2
    Types = {"INCIDENT"}
    People = {req, agent, admin}
    Agents = {agent, admin}
    Admins = {admin}
    Owners = {}
    Leads = {}
    Requester <- Raised
    Requests = {q1, q2}
    Scans = {}
    Priorities = {"high"}
    First = "high"
    Policies <- MCSettled
    Agreed <- MCAgreed
    Warning = 1
    AutoCloseAfter = 1
    ReopenWindow = 1
    ReplyRaces = TRUE
    MaxTime = 1
    MaxVersion = 6
PROPERTIES CancelledIsFinal
CHECK_DEADLOCK FALSE
