SPECIFICATION FairSpec
CONSTANTS
    Ids = {1, 2, 3, 4, 5}
    HandshakeWait = 4
    RecvTimeout = 1
    RekeyResend = 3
    MaxAttempts = 3
    KeyLife = 12
    Keepalive = 2
    StallSeconds = 5
    Latency = 1
    MaxLost = 0
    MaxErrors = 0
    AppSendsData = TRUE
INVARIANT StalledWasUnanswered
