CONSTANTS
    w1 = w1
    w2 = w2
    Workers <- MCWorkers
    MaxStreams <- MCMaxStreams
    NChunks <- MCNChunks
    CancelAllowed = TRUE
    OpenMayFail = FALSE
SPECIFICATION Spec
INVARIANT SuccessMeansDelivered
CHECK_DEADLOCK FALSE
