CONSTANTS
    s1 = s1
    s2 = s2
    Stores <- MC_Stores
    InitialStock <- MC_Stock
    MaxOrders = 1
    MaxLinks = 1
    MaxPhysical = 1
    MaxConsole = 1
    ConsoleAt = {s2}

SPECIFICATION Spec
CHECK_DEADLOCK FALSE

INVARIANT TypeOK
INVARIANT OrderInOnePlace
PROPERTY OrderTerminates
