SPECIFICATION FairSpec
CONSTANTS
    Names = {a}
    Versions = {v1}
    NoBundle = NoBundle
    Loop = Loop
    Retriers = {r1}
    Free = Free
    None = None
    Offline = Offline
    Missed = Missed
    Updates <- MCUpdates
    MaxEpoch = 1
    Halts = FALSE
    CogLossy = FALSE
    MaxStale = 1
    MayHang = FALSE
PROPERTIES
    NotLost
    Acked
CHECK_DEADLOCK FALSE
