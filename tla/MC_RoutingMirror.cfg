CONSTANTS
    s1 = s1
    s2 = s2
    Stores <- MC_Stores
    InitialStock <- MC_Stock3
    MaxOrders = 1
    MaxLinks = 1
    MaxPhysical = 2
    MaxConsole = 0
    ConsoleAt = {s2}

SPECIFICATION Spec
CHECK_DEADLOCK FALSE

INVARIANT MirrorExact
