CONSTANTS
    Alice = Alice
    Bob = Bob
    Mallory = Mallory
    NoKey = NoKey
    NoPeer = NoPeer
    c0 = c0
    c1 = c1
    c2 = c2
    Honest <- MCHonest
    Conns <- MCConns
    Dialer <- MCDialer
    Listener <- MCListener
    MaxFramePayload = 1048576
    DataConn = c0
    Inputs <- MCInputs
    ChunkSize = 3
    MaxBatchSize = 22
SPECIFICATION FairSpec
INVARIANT TypeOK
INVARIANT AssembleIntact
INVARIANT MerkleProofsVerify
INVARIANT Authenticity
PROPERTY HandshakeCompletes
CHECK_DEADLOCK FALSE
