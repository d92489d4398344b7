SPECIFICATION Spec
CONSTANTS
    None = None
    Uploads = {u1}
    Requests = {r1, r2}
    Limit = 1
    MaxMishaps = 0
INVARIANT ReadyHasObject
CHECK_DEADLOCK FALSE
