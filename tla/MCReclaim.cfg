SPECIFICATION FairSpec
CONSTANTS
    Attempts = {a1}
    Envs = {e1, e2, e3}
    Workers = {w1}
    Requests = {r1}
    Allowed = 1
    MaxQueued = 1
    Budget <- FaultCancelDiscard
PROPERTY ScoredReclaimed
CHECK_DEADLOCK FALSE
