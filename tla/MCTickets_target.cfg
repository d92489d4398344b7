SPECIFICATION Spec
CONSTANTS
    None = None
    req = req
    agent = agent
    admin = admin
    owner = owner
    q1 = q1
    q2 = q2
    s1 = s1
    s2 = s2
    Types = {"INCIDENT"}
    People = {req, agent, admin}
    Agents = {agent, admin}
    Admins = {admin}
    Owners = {}
    Leads = {}
    Requester <- Raised
    Requests = {q1}
    Scans = {}
    Priorities = {"high"}
    First = "high"
    Policies <- MCEdited
    Agreed <- MCAgreed
    Warning = 1
    AutoCloseAfter = 1
    ReopenWindow = 1
    ReplyRaces = FALSE
    MaxTime = 2
    MaxVersion = 5
PROPERTIES OpenKeepsItsTarget
CHECK_DEADLOCK FALSE
