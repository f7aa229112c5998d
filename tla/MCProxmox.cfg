SPECIFICATION Spec
CONSTANTS
    Envs = {e1, e2, e3, e4}
    Nodes = 1
    VMIDs = {v1, v2, v3}
    Jobs = {j1, j2}
    Unprofiled = {e4}
    cloneVMIDAttempts = 2
    Budget <- OneOfEach
CONSTRAINT PairsOfEvents
SYMMETRY NodeSymmetry
INVARIANT TypeOK
INVARIANT ReturnedIsWhole
INVARIANT DestroyedIsGone
PROPERTY KeepsPromise
CHECK_DEADLOCK FALSE
