SPECIFICATION FairSpec
CONSTANTS
    Workers = {w1, w2}
    Keys = {k1, k2, n1}
    NativeKeys = {n1}
    Envs = {e1, e2}
    NoKey = NoKey
    NoEnv = NoEnv
    NoEntry = NoEntry
INVARIANTS
    TypeOK
    ExclusiveLease
    NoUseAfterShutdown
    Isolation
    Accounted
PROPERTIES
    ImplementsLease
    IdleReclaimed
