SPECIFICATION Spec
CONSTANTS
    Half = 3
    MaxPackets = 11
    MaxStreams = 2
    MaxGap = 1
INVARIANTS KeyStreamOnce RemembersSent NearAuthenticates
CHECK_DEADLOCK FALSE
