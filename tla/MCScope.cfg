SPECIFICATION Spec
CONSTANTS
    Services = {wifi, cell}
    wifi = wifi
    cell = cell
    Ours = ours
    Legacy = legacy
    SystemOrder <- MCOrder
    MaxRefusals = 1
INVARIANTS OrderKept NamesRestored
CHECK_DEADLOCK FALSE
