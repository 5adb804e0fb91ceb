CONSTANTS
    W <- MCW
    MaxGeneration <- MCMaxGeneration
    MaxSkip <- MCMaxSkip
    Forged <- MCForgedInRange
SPECIFICATION Spec
INVARIANT KeyRetained
