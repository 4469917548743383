CONSTANTS
    None = None
    NoLeader <- None
    Ecoms = {0, 1, 2}
    MaxCrashes = 0
    MaxInc = 1
    Booted = {}
    Settled = FALSE
    Submitters = {}
SPECIFICATION Spec
CHECK_DEADLOCK FALSE
INVARIANT AgreedWhenQuiet
VIEW LeadershipView
