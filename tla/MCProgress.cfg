SPECIFICATION FairSpec
CONSTANTS
    Attempts = {a1}
    Envs = {e1, e2}
    Workers = {w1}
    Requests = {r1}
    Allowed = 1
    MaxQueued = 1
    Budget <- SlowCancel
PROPERTY ProvisioningResolves
CHECK_DEADLOCK FALSE
