SPECIFICATION WBFairSpec
CONSTANTS
    Threads = {u1, b}
    Background = {b}
    Releasers = {r1, r2}
    Locks = {l1, l2, l3, l4}
    Calls <- OpNames
    MaxCalls = 3
    NoLock = NoLock
    NoThread = NoThread
    NumPages = 2
    Lengths <- OnePage
    UserOps <- PutSync
    ObjectLen = 0
    RealPageSize = 2
    SafeSize = 3
    BackFlushSize = 2
    MaxFails = 1
INVARIANTS ExclusionUntilOrphaned
PROPERTIES BackgroundDrains GetInUnlessOrphaned
CHECK_DEADLOCK FALSE
