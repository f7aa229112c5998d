SPECIFICATION Spec
CONSTANTS
    Attempts = {a1, a2}
    Envs = {e1, e2}
    Workers = {w1}
    Requests = {r1, r2}
    Allowed = 1
    MaxQueued = 1
    Budget <- FaultAndCrash
SYMMETRY AllSymmetry
INVARIANT AttemptsRemainingNonNegative
INVARIANT NoOverbooking
CHECK_DEADLOCK FALSE
