SPECIFICATION Spec
CONSTANTS
    Attempts = {a1, a2}
    Envs = {e1, e2}
    Workers = {w1, w2}
    Requests = {r1}
    Allowed = 1
    MaxQueued = 1
    Budget <- FaultCancelCrash
CONSTRAINT PairsOfEvents
SYMMETRY AllSymmetry
INVARIANT TypeOK
INVARIANT SessionBeforeReady
INVARIANT EnvironmentUpWhileActive
PROPERTY ScoreFinal
PROPERTY NoReturnAfterEnd
PROPERTY KeepsLife
CHECK_DEADLOCK FALSE
