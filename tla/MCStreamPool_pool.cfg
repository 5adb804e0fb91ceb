CONSTANTS
    w1 = w1
    w2 = w2
    Workers <- MCWorkers
    MaxStreams <- MCMaxStreams
    NChunks <- MCNChunks
    CancelAllowed = TRUE
    OpenMayFail = TRUE
SPECIFICATION Spec
CHECK_DEADLOCK FALSE
INVARIANT PoolAccounting
