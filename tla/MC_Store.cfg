CONSTANTS
    p1 = p1
    Products <- MC_Products
    Ecoms <- MC_Ecoms
    InitialStock <- MC_InitialStock
    Quantities <- MC_Quantities
    Secs <- MC_Secs
    InitialLeader = 0
    ReserveChannelSize = 1
    MaxOnline = 3
    MaxPhysical = 1
    MaxLeaderMsgs = 1

SPECIFICATION Spec
CHECK_DEADLOCK FALSE

INVARIANT TypeOK
INVARIANT ReservedWithinAvailable
INVARIANT InFlightCovered

PROPERTY HandedReservationResolved
PROPERTY ImplementsReservations
