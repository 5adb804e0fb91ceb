CONSTANTS
    W <- MCW
    MaxGeneration <- MCMaxGeneration
    MaxSkip <- MCMaxSkip
    Forged <- MCForgedFar
SPECIFICATION Spec
PROPERTY WindowRespected
