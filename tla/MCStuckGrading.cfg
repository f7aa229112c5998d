SPECIFICATION FairSpec
CONSTANTS
    Attempts = {a1}
    Envs = {e1}
    Workers = {w1}
    Requests = {r1}
    Allowed = 1
    MaxQueued = 1
    Budget <- OneCrash
PROPERTY GradingRetried
CHECK_DEADLOCK FALSE
