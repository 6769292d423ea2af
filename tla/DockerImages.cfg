SPECIFICATION Spec
CONSTANTS
    pinned = pinned
    latest = latest
    l1 = l1
    l2 = l2
    Refreshers = {r1, r2}
    Refs = {pinned, latest}
    Latest = {latest}
    ImagesOf <- SharedImages
    NoImage = NoImage
    Credentials = TRUE
    MaxPushes = 1
    MaxErrors = 1
INVARIANTS
    TypeOK
    AvailableHasImage
    NoneLeftBehind
    LatestFollows
SYMMETRY Routers
