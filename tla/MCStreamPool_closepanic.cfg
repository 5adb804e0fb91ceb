CONSTANTS
    w1 = w1
    w2 = w2
    Workers <- MCWorkers
    MaxStreams <- MCMaxStreams
    NChunks <- MCNChunks
    CancelAllowed = FALSE
    OpenMayFail = FALSE
SPECIFICATION Spec
INVARIANT CloseSafe
CHECK_DEADLOCK FALSE
