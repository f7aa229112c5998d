SPECIFICATION Spec
CONSTANTS
    Attempts = {a1}
    Envs = {e1, e2}
    Workers = {w1, w2}
    Requests = {r1}
    Allowed = 1
    MaxQueued = 1
    Budget <- AdminAndTimer
SYMMETRY SlotSymmetry
INVARIANT GradedOnlyAfterEnd
CHECK_DEADLOCK FALSE
