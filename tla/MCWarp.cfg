SPECIFICATION FairSpec
CONSTANTS
    Ids = {1, 2, 3, 4, 5}
    HandshakeWait = 3
    RecvTimeout = 1
    RekeyResend = 2
    MaxAttempts = 2
    KeyLife = 4
    Keepalive = 2
    StallSeconds = 2
    Latency = 1
    MaxLost = 1
    MaxErrors = 1
    AppSendsData = TRUE
INVARIANTS KeyIsKnown GivesUpAfterLosses
PROPERTIES DeadPeerNoticed
