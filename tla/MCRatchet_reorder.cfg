CONSTANTS
    W <- MCW
    MaxGeneration <- MCMaxGeneration
    MaxSkip <- MCMaxSkip
    Forged <- MCForgedNone
SPECIFICATION FairSpec
INVARIANT TypeOK
INVARIANT KeyRetained
INVARIANT ForwardSecrecy
PROPERTY AllEventuallyOpened
