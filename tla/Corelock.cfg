SPECIFICATION FairSpec
CONSTANTS
    Cores = {c1, c2, c3}
    NoCore = NoCore
    MaxCalls = 2
INVARIANTS
    TypeOK
    MutualExclusion
    CountIsNesting
PROPERTIES
    ImplementsRecursiveLock
    LockReturns
