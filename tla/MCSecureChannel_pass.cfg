CONSTANTS
    Initiator = Initiator
    Responder = Responder
    Zero = Zero
    NoChannelKey = NoChannelKey
    W <- MCW
    MaxGeneration <- MCMaxGeneration
    MaxSkip <- MCMaxSkip
    Reflect = FALSE
SPECIFICATION Spec
INVARIANT TypeOK
INVARIANT KeysAgree
INVARIANT ChannelKeyRetained
