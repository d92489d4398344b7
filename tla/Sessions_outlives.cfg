SPECIFICATION Spec
CONSTANTS
    None = None
    Tokens = {i1, t1, t2, t3}
    Refreshes = {r1, r2}
INVARIANT EndsEverySession
CHECK_DEADLOCK FALSE
