SPECIFICATION FairSpec
CONSTANTS
    Peers = {alice, bob}
    Callers = {alice}
    MaxCounter = 5
    NotAckedLimit = 2
    KeepCounters = 3
    PacketLimit = 4
    MessageSize = 2
INVARIANTS DataHandedOnce QueuedHandedOnce AckedIsHanded HandedWithoutGaps
PROPERTIES KeepsTrying ImplementsChannel
CHECK_DEADLOCK FALSE
