SPECIFICATION FairSpec
CONSTANTS
    Attempts = {a1}
    Envs = {e1}
    Workers = {w1, w2}
    Requests = {r1}
    Allowed = 1
    MaxQueued = 2
    Budget <- OneTimer
PROPERTY EndedGetsScored
CHECK_DEADLOCK FALSE
