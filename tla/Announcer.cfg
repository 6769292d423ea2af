SPECIFICATION Spec
CONSTANTS
    Names = {a}
    Versions = {v1}
    NoBundle = NoBundle
    Loop = Loop
    Retriers = {r1}
    Free = Free
    None = None
    Offline = Offline
    Missed = Missed
    Updates <- MCUpdates
    MaxEpoch = 1
    Halts = TRUE
    CogLossy = TRUE
    MaxStale = 1
    MayHang = TRUE
INVARIANTS
    TypeOK
    RetryArmed
    SettledView
PROPERTIES
    ImplementsPromise
CHECK_DEADLOCK FALSE
