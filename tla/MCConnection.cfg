SPECIFICATION FairSpec
CONSTANTS
    Modes = {"plain", "socks", "websocket"}
    Attempts = 3
    NumPackets = 4
    MaxFrame = 3
INVARIANTS ReadyIsClean ToldOnce ReadingGoesOn CellsInOrder
PROPERTY StartSettles
CHECK_DEADLOCK FALSE
