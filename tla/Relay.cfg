SPECIFICATION FairSpec
CONSTANTS
    a = a
    b = b
    v1 = v1
    Names = {a, b}
    Versions = {v1}
    NoBundle = NoBundle
    None = None
    Updates <- NewBundleUpdates
    MayHang = TRUE
    DockerNames = {a}
    LatestNames = {a}
    Assigned <- NewBundle
    MaxLosses = 1
INVARIANTS
    TypeOK
    AckSound
    AckedOnline
PROPERTIES
    NoNewChain
    Converges
    Reannounced
CHECK_DEADLOCK FALSE
