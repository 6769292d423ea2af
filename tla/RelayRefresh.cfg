SPECIFICATION FairSpec
CONSTANTS
    a = a
    b = b
    v1 = v1
    Names = {a}
    Versions = {v1}
    NoBundle = NoBundle
    None = None
    Updates <- OneUpdate
    MayHang = FALSE
    DockerNames = {a}
    LatestNames = {}
    Assigned <- OneAssigned
    MaxLosses = 1
PROPERTIES
    KeepsRefreshing
CHECK_DEADLOCK FALSE
