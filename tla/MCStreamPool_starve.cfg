CONSTANTS
    w1 = w1
    w2 = w2
    Workers <- MCWorkers
    MaxStreams <- MCMaxStreams
    NChunks <- MCNChunks
    CancelAllowed = FALSE
    OpenMayFail = TRUE
SPECIFICATION FairSpec
PROPERTY SendReturns
CHECK_DEADLOCK FALSE
