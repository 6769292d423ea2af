SPECIFICATION Spec
CONSTANTS
    Names = {a, b}
    Versions = {v1, v2}
    NoBundle = NoBundle
    Updates <- Lists
    MaxList = 3
    MaxEpoch = 4
INVARIANTS
    CatalogOK
    ReplaceIsSnapshot
PROPERTIES
    EpochTracksContent
    AvailabilityOfVersion
