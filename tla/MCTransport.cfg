SPECIFICATION FairSpec
CONSTANTS
    MaxConnection = 3
    MaxPing = 1
    MaxQueue = 1
    MaxEvent = 2
    Faults = {"network", "reset", "suspend", "stop", "invalid", "slow"}
INVARIANTS
    ReconnectionIsComing
    AttemptIsWatched
    NoLostWakeup
    LockIsReleased
    StoppedIsClosed
PROPERTIES
    NeedIsBuilt
    UpdatingEnds
