CONSTANTS
    None = None
    NoLeader <- None
    Ecoms = {0, 1, 2}
    MaxCrashes = 2
    MaxInc = 1
    Booted = {0, 1, 2}
    Settled = TRUE
    Submitters = {}
SPECIFICATION Spec
CHECK_DEADLOCK FALSE
PROPERTY LeaderRestored
