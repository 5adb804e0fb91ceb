CONSTANTS
    Alice = Alice
    Bob = Bob
    Mallory = Mallory
    NoKey = NoKey
    NoPeer = NoPeer
    c0 = c0
    c1 = c1
    c2 = c2
    Honest <- MCHonest
    Conns <- MCConns
    Dialer <- MCDialer
    Listener <- MCListener
    MaxFramePayload = 1048576
SPECIFICATION Spec
INVARIANT Agreement
CHECK_DEADLOCK FALSE
