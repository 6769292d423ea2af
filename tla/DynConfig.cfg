SPECIFICATION FairSpec
CONSTANTS
    s1 = s1
    s2 = s2
    key = key
    other = other
    COG_key = COG_key
    Sigs = {s1, s2}
    Keys = {key, other, COG_key}
    IllegalKeys = {COG_key}
    KeysOf <- MCKeysOf
    Layers = {1, 2}
    FilesOf <- MCFilesOf
    NoSig = NoSig
    MaxChanges = 1
    MaxErrors = 1
    MaxRestarts = 1
    MaxLost = 1
INVARIANTS
    TypeOK
    RootServes
    UndisturbedRead
PROPERTIES
    MarkedRightly
    Converges
CHECK_DEADLOCK FALSE
