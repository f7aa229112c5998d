SPECIFICATION Spec
CONSTANTS
    Envs = {e1, e2}
    Nodes = 1
    VMIDs = {v1, v2}
    Jobs = {j1, j2}
    Unprofiled = {}
    cloneVMIDAttempts = 2
    Budget <- OneMore
SYMMETRY NodeSymmetry
INVARIANT AllWhole
CHECK_DEADLOCK FALSE
