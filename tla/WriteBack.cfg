SPECIFICATION WBSpec
CONSTANTS
    Threads = {u1, u2, b}
    Background = {b}
    Releasers = {r1, r2}
    Locks = {l1, l2, l3, l4}
    Calls <- OpNames
    MaxCalls = 3
    NoLock = NoLock
    NoThread = NoThread
    NumPages = 3
    Lengths <- OnePage
    UserOps <- UserOpNames
    ObjectLen = 1
    RealPageSize = 2
    SafeSize = 2
    BackFlushSize = 2
    MaxFails = 1
INVARIANTS FsyncDurable DirtyTracked WriteCacheBounded
PROPERTIES NoRegress
CONSTRAINT LockSound
SYMMETRY Interchangeable
CHECK_DEADLOCK FALSE
