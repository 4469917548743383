CONSTANTS
    None = None
    NoLeader <- None
    Ecoms = {0, 1, 2}
    MaxCrashes = 1
    MaxInc = 1
    Booted = {0, 1, 2}
    Settled = TRUE
    Submitters = {0}
SPECIFICATION Spec
CHECK_DEADLOCK FALSE
INVARIANT LeaderIsPeer
INVARIANT AgreedWhenQuiet
PROPERTY LeaderRestored
PROPERTY OrderSettles
