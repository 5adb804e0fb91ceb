CONSTANTS
    Inputs <- MCForgeInputs
    ChunkSize = 3
    MaxBatchSize = 22
    Attack = TRUE
SPECIFICATION Spec
INVARIANT AssembleIntact
CHECK_DEADLOCK FALSE
